---- MODULE Spec2Model ----
(***************************************************************************)
(* Model of the megumi AVR XMEGA emulator core: the interrupt controller   *)
(* (pending queues, PMIC arbitration, vector dispatch) and the CPU step    *)
(* callback that interleaves dispatch with instruction execution.          *)
(***************************************************************************)
EXTENDS Integers, Naturals, Sequences, FiniteSets, TLC

----------------------------------------------------------------------------
\* Program constants

\* Device::MEM_SRAM_START (0x2000)
MEM_SRAM_START == 8192

\* Device::MEM_IO_SIZE (0x1000)
MEM_IO_SIZE == 4096

\* Device::IV_MAX_COUNT (0x80)
IV_MAX_COUNT == 128

\* IntLvl enumeration: NONE=0, LO=1, MED=2, HI=3, NMI=4
INTLVL_NONE == 0

INTLVL_LO == 1

INTLVL_MED == 2

INTLVL_HI == 3

INTLVL_NMI == 4

\* Device::CCP_IOREG, Device::CCP_SPM: bits of the CCP state
CCP_IOREG == 1

CCP_SPM == 2

\* flash size up to which the return PC takes a 2-byte frame (0x20000)
FLASH_16BIT_PC_MAX == 131072

\* instruction-cycle debt charged by stepCPU for an interrupt acknowledgement
INTERRUPT_CYCLES == 5

----------------------------------------------------------------------------
\* Bounds of the model

\* interrupt nesting depth the device is driven to from reset
MaxNesting == 2

\* events in the scheduler queue at a time, and addresses they can have
MaxEvents == 3

\* events created by schedule calls in one run
MaxCreated == 3

\* SYS ticks a run is followed for
MaxTick == 8

\* CPU::step calls counted after a CCP write
MaxCcpSteps == 5

\* bound on the PC of the programs of SpecAlu
MaxAluPc == 2

----------------------------------------------------------------------------
\* Bit helpers (uint8_t / uint16_t arithmetic of the source)

RECURSIVE BitAnd(_, _)
BitAnd(a, b) ==
  IF a = 0 \/ b = 0 THEN 0
  ELSE (a % 2) * (b % 2) + 2 * BitAnd(a \div 2, b \div 2)

RECURSIVE BitOr(_, _)
BitOr(a, b) ==
  IF a = 0 THEN b
  ELSE IF b = 0 THEN a
  ELSE (IF a % 2 = 1 \/ b % 2 = 1 THEN 1 ELSE 0) + 2 * BitOr(a \div 2, b \div 2)

Pow2(n) == 2 ^ n

\* 1 << n
Shl1(n) == Pow2(n)

\* bit n of v
Bit(v, n) == (v \div Pow2(n)) % 2

\* smallest element of a non-empty set of naturals (std::set::begin)
SetMin(S) == CHOOSE x \in S : \A y \in S : x <= y

SetMax(S) == CHOOSE x \in S : \A y \in S : x >= y

----------------------------------------------------------------------------
\* Device configurations (Device::ModelConf) the model is run with

\* flash of exactly 0x20000 bytes: the largest device with a 2-byte return frame
ConfSmall == [flash_size |-> 131072, flash_boot_size |-> 8192, mem_sram_size |-> 16]

\* flash of 0x22000 bytes: return frames are 3 bytes
ConfLarge == [flash_size |-> 139264, flash_boot_size |-> 8192, mem_sram_size |-> 16]

ModelConfs == {ConfSmall, ConfLarge}

\* Blocks owning interrupt vectors: TC instances TCC0 (type 0) and TCC1 (type 1)
TCC0 == [name |-> "TCC0", io_addr |-> 2048, io_size |-> 64, iv_base |-> 14, iv_count |-> 6]

TCC1 == [name |-> "TCC1", io_addr |-> 2112, io_size |-> 64, iv_base |-> 20, iv_count |-> 4]

ModelBlocks == {TCC0, TCC1}

\* iv_blocks_[iv] as filled by connectBlock: the block whose vector range holds iv
iv_blocks_(iv) ==
  CHOOSE b \in ModelBlocks : b.iv_base <= iv /\ iv < b.iv_base + b.iv_count

\* the vectors the modelled blocks post
ModelIVs == {14, 15, 20}

\* the levels a block passes to setIvLvl; 5 stands for any invalid value
ModelLvls == 0 .. 5

----------------------------------------------------------------------------
VARIABLES
  conf,                         \* the ModelConf given to the constructor
  iv_pending_,                  \* [lo, med, hi, nmi]: sets of pending vectors
  pmic_status_,                 \* PMIC status byte
  pmic_ctrl_,                   \* PMIC ctrl: [lolvlen, medlvlen, hilvlen, ivsel]
  sreg_,                        \* cpu_.sreg_.data
  cpu_pc_,                      \* cpu_.pc_
  cpu_sp_,                      \* cpu_.sp_
  sram_data_,                   \* internal SRAM, indexed from 0
  ccp_buffer_,                  \* cpu_.ccp_buffer_
  ccp_ioreg_cycles_,            \* cpu_.ccp_ioreg_cycles_
  ccp_spm_cycles_,              \* cpu_.ccp_spm_cycles_
  instruction_cycles_,
  interrupt_wait_instruction_,
  breaked_,
  executeIv_calls,              \* executeIv calls made by the latest CPU step
  cpu_step_did,                 \* what the latest CPU step did: none/ack/exec/pay
  steps_since_ack,              \* CPU steps since the last acknowledgement, -1 once an instruction ran
  setIvLvl_log,                 \* the latest setIvLvl calls (at most two): [iv, lvl, before]
  asm_critical,                 \* what the latest CPU step logged as critical on logger_asm, or "none"
  regfile_,                     \* r0..r31
  clk_sys_tick_,                \* current SYS tick
  clk_sys_queue_,               \* the event vector, in heap order: ClockEvent records
  clk_prescaler_,               \* clk_.prescaler_a_, _b_, _c_: [a, b, c]
  fault,                        \* "none", or how the run ended: a failed assert, a fault of the run-time
  events_created,               \* number of ClockEvent objects created so far
  handles,                      \* the handles schedule() returned to callers: [addr, serial]
  sched_log,                    \* the latest scheduler call and its arguments
  stepcpu_tick,                 \* SYS tick of the latest stepCPU call made by step(), -1 before the first
  push_log,                     \* the PUSHes not yet matched by a POP, oldest first: [sp, v, sram]
  sram_written,                 \* the SRAM bytes setDataMem wrote that are not overwritten: addr -> v
  ccp_log,                      \* the latest CCP write and the CPU::step calls since: [v, steps]
  flash_data_,                  \* the flash words the model fixes: word index -> word
  registry_,                    \* [io_blocks_, iv_blocks_, blocks_]: the two tables and the block list
  host_log,                     \* the latest call of the host on the device and its outcome
  frame_log,                    \* the calls and dispatches not yet returned from, oldest first
  cpu_ramp_,                    \* cpu_.rampd_, rampx_, rampy_, rampz_, eind_: [d, x, y, z, eind]
  clk_,                         \* clk_.sclk_, psctrl_, locked_: [sclk, psctrl, locked]
  alu_log                       \* the BSET, BCLR, COM or ADD the latest instruction was: [op, sreg, rd] before it

vars == <<conf, iv_pending_, pmic_status_, pmic_ctrl_, sreg_, cpu_pc_, cpu_sp_,
          sram_data_, ccp_buffer_, ccp_ioreg_cycles_, ccp_spm_cycles_,
          instruction_cycles_, interrupt_wait_instruction_, breaked_,
          executeIv_calls, cpu_step_did, steps_since_ack, setIvLvl_log,
          asm_critical, regfile_, clk_sys_tick_, clk_sys_queue_, clk_prescaler_, fault,
          events_created, handles, sched_log, stepcpu_tick,
          push_log, sram_written, ccp_log, flash_data_, registry_, host_log,
          frame_log, cpu_ramp_, clk_, alu_log>>

\* the configuration, the flash, the block tables and the host's latest call
hostVars == <<conf, flash_data_, registry_, host_log>>

\* the scheduler, the CLK prescalers and what the model remembers of them
schedVars == <<clk_sys_tick_, clk_sys_queue_, clk_prescaler_, clk_, fault,
               events_created, handles, sched_log, stepcpu_tick>>

pendingVars == <<iv_pending_, setIvLvl_log>>

cpuVars == <<pmic_status_, sreg_, cpu_pc_, cpu_sp_, sram_data_,
             instruction_cycles_, interrupt_wait_instruction_, breaked_,
             executeIv_calls, cpu_step_did, steps_since_ack, asm_critical,
             push_log, sram_written, frame_log, cpu_ramp_, alu_log>>

ccpVars == <<ccp_buffer_, ccp_ioreg_cycles_, ccp_spm_cycles_, ccp_log>>

----------------------------------------------------------------------------
\* Derived configuration (Device constructor)

flash_size_ == conf.flash_size

flash_boot_start_ == conf.flash_size - conf.flash_boot_size

mem_sram_size_ == conf.mem_sram_size

mem_exsram_start_ == MEM_SRAM_START + mem_sram_size_

----------------------------------------------------------------------------
\* Block registry: Device::connectBlock

\* the CPU block: CPU registers at I/O 0x0030 .. 0x003F, no vectors
CPU_BLOCK == [name |-> "CPU", io_addr |-> 48, io_size |-> 16, iv_base |-> 0, iv_count |-> 0]

\* io_blocks_ = {}, iv_blocks_ = {}, blocks_ empty: a cell outside the domain
\* of a table is NULL
NoBlocks == [io_blocks_ |-> <<>>, iv_blocks_ |-> <<>>, blocks_ |-> <<>>]

\* the first cell of lo .. hi - 1 that table t has an owner for, hi if none
firstOwned(t, lo, hi) ==
  IF \E a \in lo .. hi - 1 : a \in DOMAIN t
    THEN SetMin({a \in lo .. hi - 1 : a \in DOMAIN t})
    ELSE hi

\* table t with the cells lo .. hi - 1 pointing to the block called name
fillCells(t, lo, hi, name) ==
  [a \in DOMAIN t \cup (lo .. hi - 1) |-> IF a \in lo .. hi - 1 THEN name ELSE t[a]]

\* a connectBlock that fills the cells without looking at their owners
connectBlock_overwrite(r, block) ==
  LET io1 == fillCells(r.io_blocks_, block.io_addr, block.io_addr + block.io_size, block.name)
      iv1 == fillCells(r.iv_blocks_, block.iv_base, block.iv_base + block.iv_count, block.name)
  IN  IF block.io_addr + block.io_size > MEM_IO_SIZE
        THEN [registry |-> r, threw |-> "I/O memory out of range"]
      ELSE IF block.iv_base = 0
        THEN [registry |-> [io_blocks_ |-> io1, iv_blocks_ |-> r.iv_blocks_,
                            blocks_ |-> Append(r.blocks_, block)],
              threw |-> "none"]
      ELSE IF block.iv_base + block.iv_count > IV_MAX_COUNT
        THEN [registry |-> [r EXCEPT !.io_blocks_ = io1], threw |-> "IVs out of range"]
      ELSE [registry |-> [io_blocks_ |-> io1, iv_blocks_ |-> iv1,
                          blocks_ |-> Append(r.blocks_, block)],
            threw |-> "none"]

\* Device::connectBlock(block) on the tables and the list r: the tables and
\* the list it leaves, and the BlockError it throws or "none". Each loop
\* fills the cells below the first owned one before it throws
connectBlock(r, block) ==
  LET io_end  == block.io_addr + block.io_size
      io_stop == firstOwned(r.io_blocks_, block.io_addr, io_end)
      io1     == fillCells(r.io_blocks_, block.io_addr, io_stop, block.name)
      iv_end  == block.iv_base + block.iv_count
      iv_stop == firstOwned(r.iv_blocks_, block.iv_base, iv_end)
      iv1     == fillCells(r.iv_blocks_, block.iv_base, iv_stop, block.name)
  IN  IF io_end > MEM_IO_SIZE
        THEN [registry |-> r, threw |-> "I/O memory out of range"]
      ELSE IF io_stop < io_end
        THEN [registry |-> [r EXCEPT !.io_blocks_ = io1],
              threw |-> "I/O memory space overlaps"]
      ELSE IF block.iv_base = 0
        THEN [registry |-> [io_blocks_ |-> io1, iv_blocks_ |-> r.iv_blocks_,
                            blocks_ |-> Append(r.blocks_, block)],
              threw |-> "none"]
      ELSE IF iv_end > IV_MAX_COUNT
        THEN [registry |-> [r EXCEPT !.io_blocks_ = io1], threw |-> "IVs out of range"]
      ELSE IF iv_stop < iv_end
        THEN [registry |-> [r EXCEPT !.io_blocks_ = io1, !.iv_blocks_ = iv1],
              threw |-> "interrupt vectors overlap"]
      ELSE [registry |-> [io_blocks_ |-> io1, iv_blocks_ |-> iv1,
                          blocks_ |-> Append(r.blocks_, block)],
            threw |-> "none"]

\* the connectBlock calls of a constructor, in order
RECURSIVE connectAll(_, _)
connectAll(r, blocks) ==
  IF blocks = <<>> THEN r
  ELSE connectAll(connectBlock(r, blocks[1]).registry, Tail(blocks))

\* the blocks the constructor of the modelled device connects
Connected == <<CPU_BLOCK, TCC0, TCC1>>

----------------------------------------------------------------------------
\* Flash loading: Device::loadFlash

\* a loadFlash that takes the first byte of a pair as the high byte
loadFlash_bigEndian(flash, data, words) ==
  IF Len(data) > 2 * words
    THEN [flash |-> flash, threw |-> "flash data to load is too large"]
  ELSE IF Len(data) % 2 # 0
    THEN [flash |-> flash, threw |-> "flash data not aligned on words"]
  ELSE [flash |-> [i \in DOMAIN flash \cup (0 .. Len(data) \div 2 - 1) |->
                     IF i < Len(data) \div 2
                       THEN 256 * data[2 * i + 1] + data[2 * i + 2]
                       ELSE flash[i]],
        threw |-> "none"]

\* Device::loadFlash(data) on the flash words flash of a device with `words`
\* words: the words it leaves and the DeviceConfigurationError it throws or
\* "none"; data[1] is the first byte
loadFlash(flash, data, words) ==
  IF Len(data) > 2 * words
    THEN [flash |-> flash, threw |-> "flash data to load is too large"]
  ELSE IF Len(data) % 2 # 0
    THEN [flash |-> flash, threw |-> "flash data not aligned on words"]
  ELSE [flash |-> [i \in DOMAIN flash \cup (0 .. Len(data) \div 2 - 1) |->
                     IF i < Len(data) \div 2
                       THEN data[2 * i + 1] + 256 * data[2 * i + 2]
                       ELSE flash[i]],
        threw |-> "none"]

----------------------------------------------------------------------------
\* Interrupt controller: pending queues

\* an erase that empties the queue holding iv
eraseFirst_clearsQueue(p, iv, order) ==
  LET hits == {i \in 1 .. Len(order) : iv \in p[order[i]]}
  IN  IF hits = {} THEN p
      ELSE [p EXCEPT ![order[SetMin(hits)]] = {}]

\* erase iv from the first queue of `order` that holds it (a chain of
\* `if(q.erase(iv)) break;`)
eraseFirst(p, iv, order) ==
  LET hits == {i \in 1 .. Len(order) : iv \in p[order[i]]}
  IN  IF hits = {} THEN p
      ELSE [p EXCEPT ![order[SetMin(hits)]] = @ \ {iv}]

\* insert iv into queue q, then erase it from the first other queue holding
\* it; nothing is erased when the insert finds iv already in q
insertThenErase(p, iv, q, order) ==
  IF iv \in p[q] THEN p
  ELSE eraseFirst([p EXCEPT ![q] = @ \cup {iv}], iv, order)

\* a setIvLvl that inserts without removing the earlier membership
setIvLvl_keepOld(p, iv, lvl) ==
  CASE lvl = INTLVL_NONE -> eraseFirst(p, iv, <<"lo", "med", "hi", "nmi">>)
    [] lvl = INTLVL_LO   -> [p EXCEPT !.lo = @ \cup {iv}]
    [] lvl = INTLVL_MED  -> [p EXCEPT !.med = @ \cup {iv}]
    [] lvl = INTLVL_HI   -> [p EXCEPT !.hi = @ \cup {iv}]
    [] lvl = INTLVL_NMI  -> [p EXCEPT !.nmi = @ \cup {iv}]
    [] OTHER             -> p

\* a setIvLvl whose NONE case forgets the NMI queue
setIvLvl_noneSkipsNmi(p, iv, lvl) ==
  CASE lvl = INTLVL_NONE -> eraseFirst(p, iv, <<"lo", "med", "hi">>)
    [] lvl = INTLVL_LO   -> insertThenErase(p, iv, "lo", <<"med", "hi", "nmi">>)
    [] lvl = INTLVL_MED  -> insertThenErase(p, iv, "med", <<"lo", "hi", "nmi">>)
    [] lvl = INTLVL_HI   -> insertThenErase(p, iv, "hi", <<"lo", "med", "nmi">>)
    [] lvl = INTLVL_NMI  -> insertThenErase(p, iv, "nmi", <<"lo", "med", "hi">>)
    [] OTHER             -> p

\* Device::setIvLvl: the pending queues after setIvLvl(iv, lvl)
setIvLvl(p, iv, lvl) ==
  CASE lvl = INTLVL_NONE -> eraseFirst(p, iv, <<"lo", "med", "hi", "nmi">>)
    [] lvl = INTLVL_LO   -> insertThenErase(p, iv, "lo", <<"med", "hi", "nmi">>)
    [] lvl = INTLVL_MED  -> insertThenErase(p, iv, "med", <<"lo", "hi", "nmi">>)
    [] lvl = INTLVL_HI   -> insertThenErase(p, iv, "hi", <<"lo", "med", "nmi">>)
    [] lvl = INTLVL_NMI  -> insertThenErase(p, iv, "nmi", <<"lo", "med", "hi">>)
    [] OTHER             -> p   \* invalid INTLVL: logged, nothing changes

\* the queue of a level
QueueOf(lvl) ==
  CASE lvl = INTLVL_LO  -> "lo"
    [] lvl = INTLVL_MED -> "med"
    [] lvl = INTLVL_HI  -> "hi"
    [] lvl = INTLVL_NMI -> "nmi"

Queues == {"lo", "med", "hi", "nmi"}

\* Device::currentIntLvl: the highest level whose bit is set in PMIC status
currentIntLvl(status) ==
  IF status = 0 THEN INTLVL_NONE
  ELSE LET set == {lvl \in INTLVL_LO .. INTLVL_NMI : BitAnd(status, Shl1(lvl - 1)) # 0}
       IN  IF set = {} THEN INTLVL_NONE ELSE SetMax(set)

----------------------------------------------------------------------------
\* Stack frames (return PC of `n` bytes at the stack pointer)

\* stack(): index in sram_data_ of the byte the stack pointer designates
stack(sp) == sp - MEM_SRAM_START

\* stack_set<8n>(stack(), v): byte i of v goes to stack()[-i]
stack_set(sram, sp, n, v) ==
  [a \in DOMAIN sram |->
     IF a <= stack(sp) /\ a > stack(sp) - n
     THEN (v \div Pow2(8 * (stack(sp) - a))) % 256
     ELSE sram[a]]

RECURSIVE stack_get(_, _, _)
\* stack_get<8n>(stack()): the value stack_set stored
stack_get(sram, sp, n) ==
  IF n = 0 THEN 0
  ELSE sram[stack(sp)] + 256 * stack_get(sram, sp - 1, n - 1)

\* bytes of a return-PC frame: 2 when flash_size <= 0x20000, else 3
frameBytes(fsize) == IF fsize <= FLASH_16BIT_PC_MAX THEN 2 ELSE 3

----------------------------------------------------------------------------
\* Interrupt arbitration and dispatch

\* an arbitration that ignores the level in service
selectLevel_ignoreCurrent(intlvl, p, ctrl) ==
  IF p.nmi # {} THEN INTLVL_NMI
  ELSE IF ctrl.hilvlen /\ p.hi # {} THEN INTLVL_HI
  ELSE IF ctrl.medlvlen /\ p.med # {} THEN INTLVL_MED
  ELSE IF ctrl.lolvlen /\ p.lo # {} THEN INTLVL_LO
  ELSE INTLVL_NONE

\* an arbitration that requires an enable bit for NMI too
selectLevel_nmiNeedsEnable(intlvl, p, ctrl) ==
  IF intlvl >= INTLVL_NMI THEN INTLVL_NONE
  ELSE IF ctrl.hilvlen /\ p.nmi # {} THEN INTLVL_NMI
  ELSE IF intlvl >= INTLVL_HI THEN INTLVL_NONE
  ELSE IF ctrl.hilvlen /\ p.hi # {} THEN INTLVL_HI
  ELSE IF intlvl >= INTLVL_MED THEN INTLVL_NONE
  ELSE IF ctrl.medlvlen /\ p.med # {} THEN INTLVL_MED
  ELSE IF intlvl >= INTLVL_LO THEN INTLVL_NONE
  ELSE IF ctrl.lolvlen /\ p.lo # {} THEN INTLVL_LO
  ELSE INTLVL_NONE

\* an arbitration in which a pending vector of a disabled level holds back
\* the levels below it
selectLevel_blockedByDisabled(intlvl, p, ctrl) ==
  IF intlvl >= INTLVL_NMI THEN INTLVL_NONE
  ELSE IF p.nmi # {} THEN INTLVL_NMI
  ELSE IF intlvl >= INTLVL_HI THEN INTLVL_NONE
  ELSE IF p.hi # {} THEN (IF ctrl.hilvlen THEN INTLVL_HI ELSE INTLVL_NONE)
  ELSE IF intlvl >= INTLVL_MED THEN INTLVL_NONE
  ELSE IF p.med # {} THEN (IF ctrl.medlvlen THEN INTLVL_MED ELSE INTLVL_NONE)
  ELSE IF intlvl >= INTLVL_LO THEN INTLVL_NONE
  ELSE IF ctrl.lolvlen /\ p.lo # {} THEN INTLVL_LO
  ELSE INTLVL_NONE

\* processPendingInterrupts, the if/else ladder: the level to dispatch
\* (intlvl_new), INTLVL_NONE where the function returns false
selectLevel(intlvl, p, ctrl) ==
  IF intlvl >= INTLVL_NMI THEN INTLVL_NONE
  ELSE IF p.nmi # {} THEN INTLVL_NMI
  ELSE IF intlvl >= INTLVL_HI THEN INTLVL_NONE
  ELSE IF ctrl.hilvlen /\ p.hi # {} THEN INTLVL_HI
  ELSE IF intlvl >= INTLVL_MED THEN INTLVL_NONE
  ELSE IF ctrl.medlvlen /\ p.med # {} THEN INTLVL_MED
  ELSE IF intlvl >= INTLVL_LO THEN INTLVL_NONE
  ELSE IF ctrl.lolvlen /\ p.lo # {} THEN INTLVL_LO
  ELSE INTLVL_NONE

\* a pick of the highest-numbered vector of the queue
firstIv_last(q) == SetMax(q)

\* *iv_queue->begin(): the first vector of the ordered set
firstIv(q) == SetMin(q)

\* iv_queue->erase(iv_queue->begin())
popIv(q) == q \ {firstIv(q)}

\* the vector address: 2*iv_num, plus flash_boot_start_ when ivsel is set
ivAddr(iv_num, ctrl) ==
  IF ctrl.ivsel THEN 2 * iv_num + flash_boot_start_ ELSE 2 * iv_num

\* the device state processPendingInterrupts reads and writes
DispatchState ==
  [pending |-> iv_pending_, status |-> pmic_status_, pc |-> cpu_pc_,
   sp |-> cpu_sp_, sram |-> sram_data_, calls |-> <<>>]

\* a dispatch that redirects PC before calling the block and before pushing
acknowledge_pcFirst(st, lvl) ==
  LET q      == QueueOf(lvl)
      iv_num == firstIv(st.pending[q])
      block  == iv_blocks_(iv_num)
      n      == frameBytes(flash_size_)
      pc1    == ivAddr(iv_num, pmic_ctrl_)
  IN  [pending |-> [st.pending EXCEPT ![q] = popIv(@)],
       status  |-> BitOr(st.status, Shl1(lvl - 1)),
       pc      |-> pc1,
       sp      |-> st.sp - n,
       sram    |-> stack_set(st.sram, st.sp, n, pc1),
       calls   |-> Append(st.calls,
                     [block |-> block.name, iv |-> iv_num - block.iv_base, pc |-> pc1])]

\* processPendingInterrupts after the ladder chose level lvl: pop the vector,
\* set the status bit, call executeIv, push PC, lower SP, redirect PC
acknowledge(st, lvl) ==
  LET q      == QueueOf(lvl)
      iv_num == firstIv(st.pending[q])
      block  == iv_blocks_(iv_num)
      n      == frameBytes(flash_size_)
  IN  [pending |-> [st.pending EXCEPT ![q] = popIv(@)],
       status  |-> BitOr(st.status, Shl1(lvl - 1)),
       pc      |-> ivAddr(iv_num, pmic_ctrl_),
       sp      |-> st.sp - n,
       sram    |-> stack_set(st.sram, st.sp, n, st.pc),
       calls   |-> Append(st.calls,
                     [block |-> block.name, iv |-> iv_num - block.iv_base, pc |-> st.pc])]

\* Device::processPendingInterrupts: [hit, st]
processPendingInterrupts(st) ==
  LET lvl == selectLevel(currentIntLvl(st.status), st.pending, pmic_ctrl_)
  IN  IF lvl = INTLVL_NONE THEN [hit |-> FALSE, st |-> st]
      ELSE [hit |-> TRUE, st |-> acknowledge(st, lvl)]

----------------------------------------------------------------------------
\* CPU block: CCP state

\* CPU::ccpState(): the CCP register as read, a bit per open window
ccpState ==
  (IF ccp_ioreg_cycles_ > 0 THEN CCP_IOREG ELSE 0)
  + (IF ccp_spm_cycles_ > 0 THEN CCP_SPM ELSE 0)

\* sreg_.I: bit 7 of SREG (BSET/BCLR bit order C,Z,N,V,S,H,T,I)
sreg_I(sreg) == Bit(sreg, 7) = 1

----------------------------------------------------------------------------
\* Data memory: Device::getDataMem, setDataMem and what they call

\* Device::MEM_EEPROM_START (0x1000)
MEM_EEPROM_START == 4096

\* Device::MEM_EMULATOR_START (0xFF00)
MEM_EMULATOR_START == 65280

\* Device::MEM_EMULATOR_SIZE (0x100)
MEM_EMULATOR_SIZE == 256

\* Device::MEM_MAX_SIZE (0x1000000)
MEM_MAX_SIZE == 16777216

mem_eeprom_size_ == conf.mem_eeprom_size

mem_exsram_size_ == IF conf.has_exsram THEN MEM_MAX_SIZE - mem_exsram_start_ ELSE 0

\* CPU::CPU: ramp_mask_((mem_exsram_start_ + mem_exsram_size_) >> 8)
ramp_mask_ == (mem_exsram_start_ + mem_exsram_size_) \div 256

\* CPU::CPU: eind_mask_(flash_size_ >> 9)
eind_mask_ == flash_size_ \div 512

\* CPU::getIo(addr)
cpuGetIo(addr) ==
  IF addr = 4 THEN [ret |-> ccpState, logged |-> "none"]
  ELSE IF addr = 8 THEN [ret |-> cpu_ramp_.d, logged |-> "none"]
  ELSE IF addr = 9 THEN [ret |-> cpu_ramp_.x, logged |-> "none"]
  ELSE IF addr = 10 THEN [ret |-> cpu_ramp_.y, logged |-> "none"]
  ELSE IF addr = 11 THEN [ret |-> cpu_ramp_.z, logged |-> "none"]
  ELSE IF addr = 12 THEN [ret |-> cpu_ramp_.eind, logged |-> "none"]
  ELSE IF addr = 13 THEN [ret |-> cpu_sp_ % 256, logged |-> "none"]
  ELSE IF addr = 14 THEN [ret |-> (cpu_sp_ \div 256) % 256, logged |-> "none"]
  ELSE IF addr = 15 THEN [ret |-> sreg_, logged |-> "none"]
  ELSE [ret |-> 0, logged |-> "warning"]

\* Device::getIoMem(addr): the byte returned and the level logged at
getIoMem(addr) ==
  IF addr \notin DOMAIN registry_.io_blocks_ THEN [ret |-> 0, logged |-> "error"]
  ELSE cpuGetIo(addr - CPU_BLOCK.io_addr)

\* a getEmulatorMem that returns the most significant byte first
getEmulatorMem_bigEndian(addr) ==
  LET offset == addr - MEM_EMULATOR_START
  IN  IF offset \in 0 .. 3
        THEN [ret |-> (clk_sys_tick_ \div Pow2((3 - offset) * 8)) % 256, logged |-> "none"]
        ELSE [ret |-> 0, logged |-> "warn"]

\* Device::getEmulatorMem(addr)
getEmulatorMem(addr) ==
  LET offset == addr - MEM_EMULATOR_START
  IN  IF offset \in 0 .. 3
        THEN [ret |-> (clk_sys_tick_ \div Pow2(offset * 8)) % 256, logged |-> "none"]
        ELSE [ret |-> 0, logged |-> "warn"]

\* Device::getDataMem(addr)
getDataMem(addr) ==
  IF addr < MEM_IO_SIZE THEN getIoMem(addr)
  ELSE IF addr >= MEM_EEPROM_START /\ addr < MEM_EEPROM_START + mem_eeprom_size_
    THEN [ret |-> 0, logged |-> "warn"]
  ELSE IF addr >= MEM_SRAM_START /\ addr < MEM_SRAM_START + mem_sram_size_
    THEN [ret |-> sram_data_[addr - MEM_SRAM_START], logged |-> "none"]
  ELSE IF addr >= MEM_EMULATOR_START /\ addr < MEM_EMULATOR_START + MEM_EMULATOR_SIZE
    THEN getEmulatorMem(addr)
  ELSE IF /\ mem_exsram_size_ # 0
          /\ addr >= mem_exsram_start_
          /\ addr < mem_exsram_start_ + mem_exsram_size_
    THEN [ret |-> 0, logged |-> "warn"]
  ELSE [ret |-> 0, logged |-> "error"]

\* what a write leaves of the state it can change
MemState ==
  [sram |-> sram_data_, sp |-> cpu_sp_, sreg |-> sreg_, ccp_buffer |-> ccp_buffer_,
   ramp |-> cpu_ramp_, logged |-> "none"]

\* CPU::setIo(addr, v)
cpuSetIo(addr, v) ==
  IF addr = 4 THEN [MemState EXCEPT !.ccp_buffer = v]
  ELSE IF addr = 8 THEN [MemState EXCEPT !.ramp.d = BitAnd(v, ramp_mask_)]
  ELSE IF addr = 9 THEN [MemState EXCEPT !.ramp.x = BitAnd(v, ramp_mask_)]
  ELSE IF addr = 10 THEN [MemState EXCEPT !.ramp.y = BitAnd(v, ramp_mask_)]
  ELSE IF addr = 11 THEN [MemState EXCEPT !.ramp.z = BitAnd(v, ramp_mask_)]
  ELSE IF addr = 12 THEN [MemState EXCEPT !.ramp.eind = BitAnd(v, eind_mask_)]
  ELSE IF addr = 13 THEN [MemState EXCEPT !.sp = (cpu_sp_ \div 256) * 256 + v]
  ELSE IF addr = 14 THEN [MemState EXCEPT !.sp = (cpu_sp_ % 256) + 256 * v]
  ELSE IF addr = 15 THEN [MemState EXCEPT !.sreg = v]
  ELSE [MemState EXCEPT !.logged = "error"]

\* Device::setIoMem(addr, v)
setIoMem(addr, v) ==
  IF addr \notin DOMAIN registry_.io_blocks_ THEN [MemState EXCEPT !.logged = "error"]
  ELSE cpuSetIo(addr - CPU_BLOCK.io_addr, v)

\* Device::setDataMem(addr, v); setEmulatorMem only logs
setDataMem(addr, v) ==
  IF addr < MEM_IO_SIZE THEN setIoMem(addr, v)
  ELSE IF addr >= MEM_EEPROM_START /\ addr < MEM_EEPROM_START + mem_eeprom_size_
    THEN [MemState EXCEPT !.logged = "warn"]
  ELSE IF addr >= MEM_SRAM_START /\ addr < MEM_SRAM_START + mem_sram_size_
    THEN [MemState EXCEPT !.sram[addr - MEM_SRAM_START] = v]
  ELSE IF addr >= MEM_EMULATOR_START /\ addr < MEM_EMULATOR_START + MEM_EMULATOR_SIZE
    THEN [MemState EXCEPT !.logged = "error"]
  ELSE IF /\ mem_exsram_size_ # 0
          /\ addr >= mem_exsram_start_
          /\ addr < mem_exsram_start_ + mem_exsram_size_
    THEN [MemState EXCEPT !.logged = "warn"]
  ELSE [MemState EXCEPT !.logged = "error"]

----------------------------------------------------------------------------
\* Instruction execution (the opcodes the modelled programs use)

\* u16_to_s16<12>: a 12-bit two's complement value
u16_to_s16_12(v) == IF v >= 2048 THEN v - 4096 ELSE v

\* NOP, SEI (BSET 7), CLI (BCLR 7), RJMP -1, RETI
OP_NOP == 0

OP_SEI == 38008

OP_CLI == 38136

OP_RJMP_SELF == 53247

OP_RETI == 38168

\* BREAK
OP_BREAK == 38296

\* SBRC r,b / SBRS r,b
OP_SBRC(r, b) == 64512 + 16 * r + b

OP_SBRS(r, b) == 65024 + 16 * r + b

\* SBIC a,b / SBIS a,b
OP_SBIC(a, b) == 39168 + 8 * a + b

OP_SBIS(a, b) == 39680 + 8 * a + b

\* CPSE d,r
OP_CPSE(d, r) == 4096 + 16 * d + (r % 16) + 512 * (r \div 16)

\* POP d / PUSH r
OP_POP(d) == 36879 + 16 * d

OP_PUSH(r) == 37391 + 16 * r

\* next words: JMP, CALL, LDS r0, STS r0 (two-word forms), NOP and LDI
\* r16,0xCC (one-word forms)
OP_JMP == 37900

OP_CALL == 37902

OP_LDS == 36864

OP_STS == 37376

OP_LDI_R16_CC == 60428

\* RCALL k / ICALL / EICALL / RET; CALL whose target has bit 16 set
OP_RCALL(k) == 53248 + (k % 4096)

OP_ICALL == 38153

OP_EICALL == 38169

OP_RET == 38152

OP_CALL_HI == 37903

\* BSET s / BCLR s / COM d / ADD d,r
OP_BSET(s) == 37896 + 16 * s

OP_BCLR(s) == 38024 + 16 * s

OP_COM(d) == 37888 + 16 * d

OP_ADD(d, r) == 3072 + 16 * d + (r % 16) + 512 * (r \div 16)

\* LD d,X+ (mode 13), LD d,-X (14), Y+ (9), -Y (10), Z+ (1), -Z (2) and the
\* ST of the same modes
OP_LD(d, mode) == 36864 + 16 * d + mode

OP_ST(d, mode) == 37376 + 16 * d + mode

\* the skip instructions of the modelled programs: each kind on a low and a
\* high register or I/O address, on bit 0 and bit 7
SkipOpcodes ==
  {OP_SBRC(0, 0), OP_SBRC(31, 7), OP_SBRS(0, 0), OP_SBRS(31, 7),
   OP_SBIC(0, 0), OP_SBIC(31, 7), OP_SBIS(0, 0), OP_SBIS(31, 7),
   OP_CPSE(0, 0), OP_CPSE(0, 31), OP_CPSE(31, 0)}

\* the PUSH and POP instructions of the modelled programs
StackOpcodes == {OP_PUSH(0), OP_PUSH(31), OP_POP(0), OP_POP(31)}

ModelOpcodes ==
  {OP_NOP, OP_SEI, OP_CLI, OP_RJMP_SELF, OP_RETI, OP_BREAK} \cup SkipOpcodes \cup StackOpcodes

\* the calls and returns of the modelled programs: CALL to a word below and
\* to a word above 0x10000, RCALL +2 and -2, ICALL, EICALL and RET
CallOpcodes ==
  {OP_CALL, OP_CALL_HI, OP_RCALL(2), OP_RCALL(4094), OP_ICALL, OP_EICALL, OP_RET}

\* BSET and BCLR of every flag, COM and ADD on r16 and r17
AluOpcodes ==
  {OP_BSET(s) : s \in 0 .. 7} \cup {OP_BCLR(s) : s \in 0 .. 7}
  \cup {OP_COM(16), OP_COM(17), OP_ADD(16, 17), OP_ADD(17, 17)}

\* the addressing modes of LD and ST with post-increment and pre-decrement
PtrModes == {13, 14, 9, 10, 1, 2}

\* LD and ST through X, Y and Z, to and from r0 and the low byte of the
\* pointer
PtrOpcodes ==
  {OP_LD(0, mode) : mode \in PtrModes} \cup {OP_ST(0, mode) : mode \in PtrModes}

\* the opcodes of the programs that call, compute and use pointers
ExtOpcodes == CallOpcodes \cup AluOpcodes \cup PtrOpcodes

\* opcode_is_32b: two-word instructions are JMP, CALL, LDS, STS
opcode_is_32b(opcode) ==
  BitAnd(opcode, 65036) = 37900 \/ BitAnd(opcode, 64527) = 36864

\* the skip taken by SBIC/SBIS and CPSE, opcode2 the flash word at PC+1
skipOver(st) ==
  IF opcode_is_32b(st.opcode2)
    THEN [st |-> [st EXCEPT !.pc = @ + 3], cycles |-> 3]
    ELSE [st |-> [st EXCEPT !.pc = @ + 2], cycles |-> 2]

\* the skip taken by SBRC/SBRS, opcode2 the flash word at PC+1
skipOverSBR(st) ==
  IF opcode_is_32b(st.opcode2)
    THEN [st |-> [st EXCEPT !.pc = @ + 3], cycles |-> 3]
    ELSE [st |-> [st EXCEPT !.pc = @ + 2], cycles |-> 3]

\* a POP that reads before it moves SP
execPOP_readFirst(st, d) ==
  [st EXCEPT !.sp = @ + 1,
             !.regfile = [@ EXCEPT ![d] = st.sram[stack(st.sp)]],
             !.pc = @ + 1]

\* POP: cpu_.sp_++; regfile_[d] = *stack(); cpu_.pc_++
execPOP(st, d) ==
  [st EXCEPT !.sp = @ + 1,
             !.regfile = [@ EXCEPT ![d] = st.sram[stack(st.sp + 1)]],
             !.pc = @ + 1]

\* PUSH: *stack() = regfile_[r]; cpu_.sp_--; cpu_.pc_++
execPUSH(st, r) ==
  [st EXCEPT !.sram = [@ EXCEPT ![stack(st.sp)] = st.regfile[r]],
             !.sp = @ - 1,
             !.pc = @ + 1]

\* a RETI that clears every status bit
execRETI_clearAll(st) ==
  LET n == frameBytes(flash_size_)
  IN  [st EXCEPT !.status = 0,
                 !.critical = IF st.status = 0 THEN "RETI but no active interruption" ELSE @,
                 !.sp = @ + n,
                 !.pc = stack_get(st.sram, st.sp + n, n)]

\* a RETI that clears the lowest status bit set
execRETI_lowest(st) ==
  LET low == CHOOSE l \in INTLVL_NONE .. INTLVL_NMI :
               /\ l = INTLVL_NONE => st.status = 0
               /\ l # INTLVL_NONE => Bit(st.status, l - 1) = 1 /\ st.status % Shl1(l - 1) = 0
      n   == frameBytes(flash_size_)
  IN  [st EXCEPT !.status = IF low = INTLVL_NONE THEN @ ELSE @ - Shl1(low - 1),
                 !.critical = IF low = INTLVL_NONE THEN "RETI but no active interruption" ELSE @,
                 !.sp = @ + n,
                 !.pc = stack_get(st.sram, st.sp + n, n)]

\* the RETI branch: clear the highest status bit set or log a critical
\* message when none is, pop the return PC
execRETI(st) ==
  LET lvl == currentIntLvl(st.status)
      n   == frameBytes(flash_size_)
  IN  [st EXCEPT !.status = IF lvl = INTLVL_NONE THEN @ ELSE @ - Shl1(lvl - 1),
                 !.critical = IF lvl = INTLVL_NONE THEN "RETI but no active interruption" ELSE @,
                 !.sp = @ + n,
                 !.pc = stack_get(st.sram, st.sp + n, n)]

\* regx_, regy_, regz_: the register pair at base as a 16-bit value
regPair(regfile, base) == regfile[base] + 256 * regfile[base + 1]

\* the register file with the pair at base set to v
setRegPair(regfile, base, v) ==
  [regfile EXCEPT ![base] = v % 256, ![base + 1] = v \div 256]

\* a call that pushes the address of the call instruction
execCall_pushPc(st, words, target, cycles) ==
  LET n == frameBytes(flash_size_)
  IN  [st |-> [st EXCEPT !.sram = stack_set(st.sram, st.sp, n, st.pc),
                         !.sp = @ - n,
                         !.pc = target],
       cycles |-> cycles + (n - 2)]

\* CALL, RCALL, ICALL: stack_set<16|24>(stack(), pc + words); sp -= 2|3;
\* pc = target; `cycles` with a 2-byte frame, one more with a 3-byte frame
execCall(st, words, target, cycles) ==
  LET n == frameBytes(flash_size_)
  IN  [st |-> [st EXCEPT !.sram = stack_set(st.sram, st.sp, n, st.pc + words),
                         !.sp = @ - n,
                         !.pc = target],
       cycles |-> cycles + (n - 2)]

\* EICALL: not available when flash_size <= 0x20000, else a 3-byte frame and
\* pc = regz_ | eind_ << 16
execEICALL(st) ==
  IF flash_size_ <= FLASH_16BIT_PC_MAX
    THEN [st |-> [st EXCEPT !.critical = "EICALL not available: flash size is less than 128K",
                            !.pc = @ + 1],
          cycles |-> 1]
    ELSE [st |-> [st EXCEPT !.sram = stack_set(st.sram, st.sp, 3, st.pc + 1),
                            !.sp = @ - 3,
                            !.pc = regPair(st.regfile, 30) + 65536 * st.ramp.eind],
          cycles |-> 3]

\* RET: sp += 2|3; pc = stack_get<16|24>(stack())
execRET(st) ==
  LET n == frameBytes(flash_size_)
  IN  [st |-> [st EXCEPT !.sp = @ + n,
                         !.pc = stack_get(st.sram, st.sp + n, n)],
       cycles |-> n]

\* a COM that leaves C as it was
execCOM_keepC(st, d) ==
  LET R == 255 - st.regfile[d]
      N == Bit(R, 7)
  IN  [st EXCEPT !.regfile = [@ EXCEPT ![d] = R],
                 !.sreg = BitAnd(@, 225) + Bit(@, 0) + 2 * (IF R = 0 THEN 1 ELSE 0)
                            + 4 * N + 16 * N,
                 !.pc = @ + 1]

\* COM: R = 0xFF - Rd; C = 1, Z = (R == 0), N = R7, V = 0, S = N ^ V; H, T
\* and I stay
execCOM(st, d) ==
  LET R == 255 - st.regfile[d]
      N == Bit(R, 7)
  IN  [st EXCEPT !.regfile = [@ EXCEPT ![d] = R],
                 !.sreg = BitAnd(@, 224) + 1 + 2 * (IF R = 0 THEN 1 ELSE 0)
                            + 4 * N + 16 * N,
                 !.pc = @ + 1]

\* bit n of (Rd & Rr) | (Rr & ~R) | (~R & Rd)
carryBit(Rd, Rr, R, n) ==
  IF \/ Bit(Rd, n) = 1 /\ Bit(Rr, n) = 1
     \/ Bit(Rr, n) = 1 /\ Bit(R, n) = 0
     \/ Bit(R, n) = 0 /\ Bit(Rd, n) = 1
  THEN 1 ELSE 0

\* bit 7 of (Rd & Rr & ~R) | (~Rd & ~Rr & R)
overflowBit(Rd, Rr, R) ==
  IF \/ Bit(Rd, 7) = 1 /\ Bit(Rr, 7) = 1 /\ Bit(R, 7) = 0
     \/ Bit(Rd, 7) = 0 /\ Bit(Rr, 7) = 0 /\ Bit(R, 7) = 1
  THEN 1 ELSE 0

\* an ADD whose H is the carry out of bit 7
execADD_halfFromBit7(st, d, r) ==
  LET Rd == st.regfile[d]
      Rr == st.regfile[r]
      R  == (Rd + Rr) % 256
      N  == Bit(R, 7)
      V  == overflowBit(Rd, Rr, R)
  IN  [st EXCEPT !.regfile = [@ EXCEPT ![d] = R],
                 !.sreg = BitAnd(@, 192) + carryBit(Rd, Rr, R, 7)
                            + 2 * (IF R = 0 THEN 1 ELSE 0) + 4 * N + 8 * V
                            + 16 * ((N + V) % 2) + 32 * carryBit(Rd, Rr, R, 7),
                 !.pc = @ + 1]

\* ADD: R = Rd + Rr (uint8_t); C, Z, N, V, S, H from Rd, Rr, R; T and I stay
execADD(st, d, r) ==
  LET Rd == st.regfile[d]
      Rr == st.regfile[r]
      R  == (Rd + Rr) % 256
      N  == Bit(R, 7)
      V  == overflowBit(Rd, Rr, R)
  IN  [st EXCEPT !.regfile = [@ EXCEPT ![d] = R],
                 !.sreg = BitAnd(@, 192) + carryBit(Rd, Rr, R, 7)
                            + 2 * (IF R = 0 THEN 1 ELSE 0) + 4 * N + 8 * V
                            + 16 * ((N + V) % 2) + 32 * carryBit(Rd, Rr, R, 3),
                 !.pc = @ + 1]

\* the pointer pair and the RAMP register of an LD/ST addressing mode
ptrBase(mode) == IF mode \in {13, 14} THEN 26 ELSE IF mode \in {9, 10} THEN 28 ELSE 30

ptrRamp(mode) == IF mode \in {13, 14} THEN "x" ELSE IF mode \in {9, 10} THEN "y" ELSE "z"

\* the critical message of LD/ST when d is a register of the pointer pair
ptrCritical(st, d, base) ==
  IF d \in {base, base + 1} THEN [st EXCEPT !.critical = "undefined opcode behavior"] ELSE st

\* regfile_[d] = getDataMem(addr), or setDataMem(addr, regfile_[d]); a
\* pre-decrement that has changed RAMP stores at 0xFFFF of a 64K page, never
\* to a RAMP register
memAccess(st, d, addr, store) ==
  IF store
    THEN LET m == setDataMem(addr, st.regfile[d])
         IN  [st EXCEPT !.sram = m.sram, !.sp = m.sp, !.sreg = m.sreg,
                        !.ramp = IF st.ramp = cpu_ramp_ THEN m.ramp ELSE @]
    ELSE [st EXCEPT !.regfile = [@ EXCEPT ![d] = getDataMem(addr).ret]]

\* a post-increment that carries into RAMP without the mask
execPostInc_noMask(st, d, base, rf, store) ==
  LET st0  == ptrCritical(st, d, base)
      addr == regPair(st0.regfile, base) + 65536 * st0.ramp[rf]
      st1  == memAccess(st0, d, addr, store)
      ptr  == (regPair(st1.regfile, base) + 1) % 65536
  IN  [st |-> [st1 EXCEPT !.regfile = setRegPair(@, base, ptr),
                          !.ramp = IF ptr = 0
                                     THEN [@ EXCEPT ![rf] = (@ + 1) % 256]
                                     ELSE @,
                          !.pc = @ + 1],
       cycles |-> IF ~store /\ addr >= MEM_SRAM_START THEN 2 ELSE 1]

\* LD d,P+ / ST P+,d: access at P | RAMP << 16, then ++P and, when P is 0,
\* RAMP++ and RAMP &= ramp_mask_
execPostInc(st, d, base, rf, store) ==
  LET st0  == ptrCritical(st, d, base)
      addr == regPair(st0.regfile, base) + 65536 * st0.ramp[rf]
      st1  == memAccess(st0, d, addr, store)
      ptr  == (regPair(st1.regfile, base) + 1) % 65536
  IN  [st |-> [st1 EXCEPT !.regfile = setRegPair(@, base, ptr),
                          !.ramp = IF ptr = 0
                                     THEN [@ EXCEPT ![rf] = BitAnd((@ + 1) % 256, ramp_mask_)]
                                     ELSE @,
                          !.pc = @ + 1],
       cycles |-> IF ~store /\ addr >= MEM_SRAM_START THEN 2 ELSE 1]

\* LD d,-P / ST -P,d: --P and, when P is 0xFFFF, RAMP-- and RAMP &=
\* ramp_mask_, then the access at P | RAMP << 16
execPreDec(st, d, base, rf, store) ==
  LET st0  == ptrCritical(st, d, base)
      ptr  == (regPair(st0.regfile, base) - 1) % 65536
      st1  == [st0 EXCEPT !.regfile = setRegPair(@, base, ptr),
                          !.ramp = IF ptr = 65535
                                     THEN [@ EXCEPT ![rf] = BitAnd((@ - 1) % 256, ramp_mask_)]
                                     ELSE @]
      addr == ptr + 65536 * st1.ramp[rf]
      st2  == memAccess(st1, d, addr, store)
  IN  [st |-> [st2 EXCEPT !.pc = @ + 1],
       cycles |-> IF ~store /\ addr >= MEM_SRAM_START THEN 3 ELSE 2]

\* Device::executeNextInstruction on opcode: [st, cycles]; st holds what the
\* instruction reads and writes, with opcode2 the flash word at PC+1 and io
\* the byte getIoMem returns for the I/O address the instruction names
executeNextInstruction(opcode, st) ==
  IF opcode = 0                                  \* NOP
    THEN [st |-> [st EXCEPT !.pc = @ + 1], cycles |-> 1]
  ELSE IF BitAnd(opcode, 65423) = 37896          \* BSET: (opcode & 0xFF8F) == 0x9408
    THEN [st |-> [st EXCEPT !.sreg = BitOr(@, Shl1((opcode \div 16) % 8)),
                            !.pc = @ + 1],
          cycles |-> 1]
  ELSE IF BitAnd(opcode, 65423) = 38024          \* BCLR: (opcode & 0xFF8F) == 0x9488
    THEN [st |-> [st EXCEPT !.sreg = @ - Bit(@, (opcode \div 16) % 8) * Shl1((opcode \div 16) % 8),
                            !.pc = @ + 1],
          cycles |-> 1]
  ELSE IF BitAnd(opcode, 61440) = 49152          \* RJMP: (opcode & 0xF000) == 0xC000
    THEN [st |-> [st EXCEPT !.pc = @ + u16_to_s16_12(BitAnd(opcode, 4095)) + 1],
          cycles |-> 2]
  ELSE IF BitAnd(opcode, 64512) = 64512          \* SBRC, SBRS: (opcode & 0xFC00) == 0xFC00
    THEN IF Bit(st.regfile[(opcode \div 16) % 32], opcode % 8) = Bit(opcode, 9)
           THEN skipOverSBR(st)
           ELSE [st |-> [st EXCEPT !.pc = @ + 1], cycles |-> 1]
  ELSE IF BitAnd(opcode, 64768) = 39168          \* SBIC, SBIS: (opcode & 0xFD00) == 0x9900
    THEN IF Bit(st.io, opcode % 8) = Bit(opcode, 9)
           THEN skipOver(st)
           ELSE [st |-> [st EXCEPT !.pc = @ + 1], cycles |-> 1]
  ELSE IF BitAnd(opcode, 64512) = 4096           \* CPSE: (opcode & 0xFC00) == 0x1000
    THEN IF st.regfile[(opcode \div 16) % 32]
              = st.regfile[(opcode % 16) + 16 * Bit(opcode, 9)]
           THEN skipOver(st)
           ELSE [st |-> [st EXCEPT !.pc = @ + 1], cycles |-> 1]
  ELSE IF opcode = 38168                         \* RETI: 0x9518
    THEN [st |-> execRETI(st), cycles |-> IF flash_size_ <= FLASH_16BIT_PC_MAX THEN 2 ELSE 3]
  ELSE IF BitAnd(opcode, 65039) = 36879          \* POP: (opcode & 0xFE0F) == 0x900F
    THEN [st |-> execPOP(st, (opcode \div 16) % 32), cycles |-> 1]
  ELSE IF BitAnd(opcode, 65039) = 37391          \* PUSH: (opcode & 0xFE0F) == 0x920F
    THEN [st |-> execPUSH(st, (opcode \div 16) % 32), cycles |-> 1]
  ELSE IF opcode = 38296                         \* BREAK: 0x9598
    THEN [st |-> [st EXCEPT !.breaked = TRUE, !.pc = @ + 1], cycles |-> 1]
  ELSE IF BitAnd(opcode, 65039) = 37888          \* COM: (opcode & 0xFE0F) == 0x9400
    THEN [st |-> execCOM(st, (opcode \div 16) % 32), cycles |-> 1]
  ELSE IF BitAnd(opcode, 64512) = 3072           \* ADD: (opcode & 0xFC00) == 0x0C00
    THEN [st |-> execADD(st, (opcode \div 16) % 32, (opcode % 16) + 16 * Bit(opcode, 9)),
          cycles |-> 1]
  ELSE IF BitAnd(opcode, 65039) \in {36877, 36873, 36865, 37389, 37385, 37377}
    THEN execPostInc(st, (opcode \div 16) % 32, ptrBase(opcode % 16), ptrRamp(opcode % 16),
                     Bit(opcode, 9) = 1)         \* LD/ST X+, Y+, Z+
  ELSE IF BitAnd(opcode, 65039) \in {36878, 36874, 36866, 37390, 37386, 37378}
    THEN execPreDec(st, (opcode \div 16) % 32, ptrBase(opcode % 16), ptrRamp(opcode % 16),
                    Bit(opcode, 9) = 1)          \* LD/ST -X, -Y, -Z
  ELSE IF BitAnd(opcode, 65038) = 37902          \* CALL: (opcode & 0xFE0E) == 0x940E
    THEN execCall(st, 2,
                  65536 * BitOr(BitAnd(opcode \div 8, 62), opcode % 2) + st.opcode2, 3)
  ELSE IF BitAnd(opcode, 61440) = 53248          \* RCALL: (opcode & 0xF000) == 0xD000
    THEN execCall(st, 1, st.pc + u16_to_s16_12(BitAnd(opcode, 4095)) + 1, 2)
  ELSE IF opcode = 38153                         \* ICALL: 0x9509
    THEN execCall(st, 1, regPair(st.regfile, 30), 2)
  ELSE IF opcode = 38169                         \* EICALL: 0x9519
    THEN execEICALL(st)
  ELSE IF opcode = 38152                         \* RET: 0x9508
    THEN execRET(st)
  ELSE [st |-> [st EXCEPT !.pc = @ + 1], cycles |-> 1]   \* unknown opcode

\* the instructions that push a return frame: CALL, RCALL, ICALL, and EICALL
\* where it is available
pushesFrame(opcode) ==
  \/ BitAnd(opcode, 65038) = 37902
  \/ BitAnd(opcode, 61440) = 53248
  \/ opcode = OP_ICALL
  \/ opcode = OP_EICALL /\ flash_size_ > FLASH_16BIT_PC_MAX

\* entry points of the modelled programs: the reset vector and the vectors
EntryPoints ==
  {0} \cup {2 * iv : iv \in ModelIVs} \cup {2 * iv + flash_boot_start_ : iv \in ModelIVs}

\* the opcodes the modelled programs may hold at PC: PC indexes a word of
\* flash_data_ (a fetch outside it is not followed), an instruction that falls
\* through to PC+1 stands only at an entry point (what follows it is a jump
\* or a return), RETI only with a return frame on the stack, PUSH and POP
\* only where *stack() is a byte of sram_data_
OpcodeAt(opcode) ==
  /\ cpu_pc_ < flash_size_ \div 2
  /\ opcode \in {OP_NOP, OP_SEI, OP_CLI, OP_BREAK} => cpu_pc_ \in EntryPoints
  /\ opcode = OP_RETI => cpu_sp_ + frameBytes(flash_size_) < mem_exsram_start_
  /\ opcode \in {OP_PUSH(0), OP_PUSH(31)} =>
       (cpu_sp_ >= MEM_SRAM_START /\ cpu_sp_ < mem_exsram_start_)
  /\ opcode \in {OP_POP(0), OP_POP(31)} =>
       (cpu_sp_ + 1 >= MEM_SRAM_START /\ cpu_sp_ + 1 < mem_exsram_start_)
  /\ pushesFrame(opcode) =>
       /\ cpu_sp_ - frameBytes(flash_size_) + 1 >= MEM_SRAM_START
       /\ cpu_sp_ < mem_exsram_start_
  /\ opcode = OP_RET =>
       /\ cpu_sp_ + 1 >= MEM_SRAM_START
       /\ cpu_sp_ + frameBytes(flash_size_) < mem_exsram_start_

----------------------------------------------------------------------------
\* Core orchestrator: the CPU step callback

\* a guard that lets a dispatch follow a dispatch
dispatchGuard_noWait ==
  /\ instruction_cycles_ = 0
  /\ sreg_I(sreg_)
  /\ ccpState = 0

\* a guard that ignores SREG.I and the CCP windows
dispatchGuard_noMask ==
  /\ instruction_cycles_ = 0
  /\ ~interrupt_wait_instruction_

\* a guard that ignores the cycle debt
dispatchGuard_noDebt ==
  /\ ~interrupt_wait_instruction_
  /\ sreg_I(sreg_)
  /\ ccpState = 0

\* stepCPU: the condition under which pending interrupts are processed
dispatchGuard ==
  /\ instruction_cycles_ = 0
  /\ ~interrupt_wait_instruction_
  /\ sreg_I(sreg_)
  /\ ccpState = 0

\* stepCPU: instruction_cycles_ after an acknowledgement
ackCycles == INTERRUPT_CYCLES

\* a flag that stays set until the next BREAK
clearBreaked_sticky(breaked) == breaked

\* breaked_ = false, the first statement of stepCPU
clearBreaked(breaked) == FALSE

\* a step that forgets to pay
payCycle_none(cycles) == cycles

\* instruction_cycles_--, the last statement of stepCPU
payCycle(cycles) == cycles - 1

\* the flash word at pc is opcode, where the model fixes that word
FlashAt(pc, opcode) == pc \in DOMAIN flash_data_ => flash_data_[pc] = opcode

\* push_log after the instruction opcode: a PUSH is added, a POP takes the
\* latest PUSH away, any other instruction ends the sequence; `adjacent` says
\* that no stack instruction came after the PUSH
pushLogged(opcode, log) ==
  IF opcode \in {OP_PUSH(0), OP_PUSH(31)}
    THEN Append([i \in 1 .. Len(log) |-> [log[i] EXCEPT !.adjacent = FALSE]],
                [sp |-> cpu_sp_, v |-> regfile_[(opcode \div 16) % 32],
                 sram |-> sram_data_, adjacent |-> TRUE])
  ELSE IF opcode \in {OP_POP(0), OP_POP(31)}
    THEN IF log = <<>> THEN <<>> ELSE SubSeq(log, 1, Len(log) - 1)
  ELSE <<>>

\* the bytes of the return frame pushed from stack pointer sp, as sram holds them
frameSnapshot(sram, sp) ==
  [a \in (stack(sp) - frameBytes(flash_size_) + 1 .. stack(sp)) \cap DOMAIN sram |-> sram[a]]

\* the frames of log are on the stack of sram below or at sp as they were
\* pushed
framesIntact(log, sram, sp) ==
  /\ log # <<>> => sp <= log[Len(log)].sp - frameBytes(flash_size_)
  /\ \A i \in 1 .. Len(log) :
       \A a \in stack(log[i].sp) - frameBytes(flash_size_) + 1 .. stack(log[i].sp) :
          sram[a] = log[i].sram[a]

\* frame_log after the instruction opcode has left sram and sp: a call is
\* added, RET and RETI take the latest entry away, an instruction that moves
\* SP above a frame or writes into one ends the sequence
frameLogged(opcode, log, sram, sp) ==
  IF opcode \in {OP_RET, OP_RETI}
    THEN IF log = <<>> THEN <<>> ELSE SubSeq(log, 1, Len(log) - 1)
  ELSE IF pushesFrame(opcode)
    THEN Append(log, [kind |-> "call", op |-> opcode, pc |-> cpu_pc_, sp |-> cpu_sp_,
                      status |-> pmic_status_, sram |-> frameSnapshot(sram, cpu_sp_)])
  ELSE IF framesIntact(log, sram, sp) THEN log
  ELSE <<>>

\* the latest instruction was no BSET, BCLR, COM or ADD
NoAlu == [op |-> -1, sreg |-> 0, rd |-> 0]

\* alu_log after the instruction opcode: a BSET, BCLR, COM or ADD with SREG
\* and its register d before it
aluLogged(opcode) ==
  IF opcode \in AluOpcodes
    THEN [op |-> opcode, sreg |-> sreg_, rd |-> regfile_[(opcode \div 16) % 32]]
    ELSE NoAlu

\* the bytes of w that the SRAM sram still holds
notOverwritten(w, sram) ==
  [a \in {x \in DOMAIN w : sram[x - MEM_SRAM_START] = w[x]} |-> w[a]]

\* Device::stepCPU with opcode and opcode2 the flash words at PC and PC+1, io
\* the byte getIoMem returns to the instruction, and dispatch the value of the
\* dispatch condition
stepCPU(opcode, opcode2, io, dispatch) ==
  /\ opcode \in ModelOpcodes \cup ExtOpcodes
  /\ \E res \in {IF dispatch THEN processPendingInterrupts(DispatchState)
                 ELSE [hit |-> FALSE, st |-> DispatchState]} :
     \E ic1 \in {IF res.hit THEN ackCycles ELSE instruction_cycles_} :
     \E run \in {ic1 = 0} :
      /\ run => (OpcodeAt(opcode) /\ FlashAt(cpu_pc_, opcode))
      /\ iv_pending_' = res.st.pending
      /\ executeIv_calls' = res.st.calls
      /\ \E ex \in {IF run
                     THEN executeNextInstruction(opcode,
                            [pc |-> res.st.pc, sp |-> res.st.sp, sreg |-> sreg_,
                             status |-> res.st.status, sram |-> res.st.sram,
                             critical |-> "none", regfile |-> regfile_,
                             breaked |-> clearBreaked(breaked_), opcode2 |-> opcode2,
                             io |-> io, ramp |-> cpu_ramp_])
                     ELSE [cycles |-> 0]} :
         /\ IF run
              THEN /\ cpu_pc_' = ex.st.pc
                   /\ cpu_sp_' = ex.st.sp
                   /\ sreg_' = ex.st.sreg
                   /\ pmic_status_' = ex.st.status
                   /\ sram_data_' = ex.st.sram
                   /\ regfile_' = ex.st.regfile
                   /\ breaked_' = ex.st.breaked
                   /\ instruction_cycles_' = payCycle(ex.cycles)
                   /\ interrupt_wait_instruction_' = FALSE
                   /\ cpu_step_did' = "exec"
                   /\ steps_since_ack' = -1
                   /\ asm_critical' = ex.st.critical
                   /\ push_log' = pushLogged(opcode, push_log)
                   /\ cpu_ramp_' = ex.st.ramp
                   /\ alu_log' = aluLogged(opcode)
                   /\ frame_log' = frameLogged(opcode, frame_log, ex.st.sram, ex.st.sp)
                   /\ sram_written' = notOverwritten(sram_written, ex.st.sram)
              ELSE /\ cpu_pc_' = res.st.pc
                   /\ cpu_sp_' = res.st.sp
                   /\ sreg_' = sreg_
                   /\ pmic_status_' = res.st.status
                   /\ sram_data_' = res.st.sram
                   /\ regfile_' = regfile_
                   /\ breaked_' = clearBreaked(breaked_)
                   /\ instruction_cycles_' = payCycle(ic1)
                   /\ interrupt_wait_instruction_' = (res.hit \/ interrupt_wait_instruction_)
                   /\ cpu_step_did' = IF res.hit THEN "ack" ELSE "pay"
                   /\ steps_since_ack' =
                        IF res.hit THEN 0
                        ELSE IF steps_since_ack = -1 THEN -1 ELSE steps_since_ack + 1
                   /\ asm_critical' = "none"
                   /\ push_log' = IF res.hit THEN <<>> ELSE push_log
                   /\ cpu_ramp_' = cpu_ramp_
                   /\ alu_log' = alu_log
                   /\ frame_log' =
                        IF res.hit
                          THEN Append(frame_log, [kind |-> "iv", op |-> -1, pc |-> cpu_pc_,
                                                  sp |-> cpu_sp_, status |-> pmic_status_,
                                                  sram |-> frameSnapshot(res.st.sram, cpu_sp_)])
                        ELSE frame_log
                   /\ sram_written' = notOverwritten(sram_written, res.st.sram)
  /\ UNCHANGED <<hostVars, pmic_ctrl_, setIvLvl_log>>

\* the CPU step of a program that reads neither the next flash word nor an
\* I/O register at this instruction
StepCPU(opcode) ==
  stepCPU(opcode, 65535, 0, dispatchGuard) /\ UNCHANGED ccpVars

\* the CPU step at an instruction that reads the next flash word or an I/O
\* register
StepCPUFetch(opcode, opcode2, io) ==
  stepCPU(opcode, opcode2, io, dispatchGuard) /\ UNCHANGED ccpVars

\* a block posts, changes or clears an interrupt: Device::setIvLvl(iv, lvl)
SetIvLvl(iv, lvl) ==
  /\ iv_pending_' = setIvLvl(iv_pending_, iv, lvl)
  /\ UNCHANGED <<hostVars, pmic_ctrl_, cpuVars, ccpVars, setIvLvl_log, regfile_, schedVars>>

\* the same call, remembered with the call before it
SetIvLvlLogged(iv, lvl) ==
  /\ iv_pending_' = setIvLvl(iv_pending_, iv, lvl)
  /\ setIvLvl_log' =
       LET call == [iv |-> iv, lvl |-> lvl, before |-> iv_pending_]
       IN  IF setIvLvl_log = <<>> THEN <<call>>
           ELSE <<setIvLvl_log[Len(setIvLvl_log)], call>>
  /\ UNCHANGED <<hostVars, pmic_ctrl_, cpuVars, ccpVars, regfile_, schedVars>>

\* a CCP write that arms the window itself
CpuSetIoCCP_arming(v) ==
  /\ ccp_buffer_' = v
  /\ ccp_ioreg_cycles_' = IF v = 157 THEN 4 ELSE ccp_ioreg_cycles_
  /\ ccp_spm_cycles_' = IF v = 216 THEN 4 ELSE ccp_spm_cycles_
  /\ ccp_log' = [v |-> v, steps |-> 0]
  /\ UNCHANGED <<hostVars, iv_pending_, setIvLvl_log, pmic_ctrl_, cpuVars, regfile_, schedVars>>

\* a write of v to the CCP register: CPU::setIo(0x04, v)
CpuSetIoCCP(v) ==
  /\ ccp_buffer_' = v
  /\ ccp_log' = [v |-> v, steps |-> 0]
  /\ UNCHANGED <<hostVars, iv_pending_, setIvLvl_log, pmic_ctrl_, cpuVars,
                 ccp_ioreg_cycles_, ccp_spm_cycles_, regfile_, schedVars>>

\* a CPU::step that arms the windows and never counts them down
CpuStepWindows_noDecrement ==
  /\ ccp_ioreg_cycles_' = IF ccp_buffer_ = 157 THEN 4 ELSE ccp_ioreg_cycles_
  /\ ccp_spm_cycles_' = IF ccp_buffer_ # 157 /\ ccp_buffer_ = 216 THEN 4 ELSE ccp_spm_cycles_
  /\ ccp_buffer_' = IF ccp_buffer_ \in {157, 216} THEN 0 ELSE ccp_buffer_
  /\ ccp_log' = [ccp_log EXCEPT !.steps = IF @ = -1 THEN -1
                                           ELSE IF @ < MaxCcpSteps THEN @ + 1 ELSE @]

\* CPU::step(): count the CCP windows down, then arm the window the buffered
\* CCP write asks for
CpuStepWindows ==
  LET ioreg1 == IF ccp_ioreg_cycles_ > 0 THEN ccp_ioreg_cycles_ - 1 ELSE ccp_ioreg_cycles_
      spm1   == IF ccp_spm_cycles_ > 0 THEN ccp_spm_cycles_ - 1 ELSE ccp_spm_cycles_
  IN  /\ ccp_ioreg_cycles_' = IF ccp_buffer_ = 157 THEN 4 ELSE ioreg1
      /\ ccp_spm_cycles_' = IF ccp_buffer_ # 157 /\ ccp_buffer_ = 216 THEN 4 ELSE spm1
      /\ ccp_buffer_' = IF ccp_buffer_ \in {157, 216} THEN 0 ELSE ccp_buffer_
      /\ ccp_log' = [ccp_log EXCEPT !.steps = IF @ = -1 THEN -1
                                               ELSE IF @ < MaxCcpSteps THEN @ + 1 ELSE @]

\* a call of CPU::step() alone
CpuStep ==
  /\ CpuStepWindows
  /\ UNCHANGED <<hostVars, iv_pending_, setIvLvl_log, pmic_ctrl_, cpuVars, regfile_, schedVars>>

\* the dispatch condition of a stepCPU that comes after the CPU::step of the
\* same CPU cycle: the CCP state is the one CPU::step leaves
dispatchGuardStepped ==
  /\ instruction_cycles_ = 0
  /\ ~interrupt_wait_instruction_
  /\ sreg_I(sreg_)
  /\ ccpState' = 0

\* a CPU cycle: CPU::step() at its start, then Device::stepCPU
CpuCycle(opcode) ==
  /\ CpuStepWindows
  /\ stepCPU(opcode, 65535, 0, dispatchGuardStepped)

\* the values of the PMIC enable bits and IVSEL
CtrlValues ==
  [lolvlen : BOOLEAN, medlvlen : BOOLEAN, hilvlen : BOOLEAN, ivsel : BOOLEAN]

CtrlReset == [lolvlen |-> FALSE, medlvlen |-> FALSE, hilvlen |-> FALSE, ivsel |-> FALSE]

CtrlAllOn == [lolvlen |-> TRUE, medlvlen |-> TRUE, hilvlen |-> TRUE, ivsel |-> FALSE]

\* a write of the PMIC CTRL register
PmicSetCtrl(c) ==
  /\ pmic_ctrl_' = c
  /\ pmic_ctrl_ # c
  /\ UNCHANGED <<hostVars, pendingVars, cpuVars, ccpVars, regfile_, schedVars>>

----------------------------------------------------------------------------
\* Clock scheduler: the event heap

\* Device::getClockScale with prescalers pre
getClockScale(clock, pre) ==
  CASE clock = "SYS"            -> 1
    [] clock \in {"CPU", "PER"} -> pre.a * pre.b * pre.c
    [] clock = "PER2"           -> pre.a * pre.b
    [] clock = "PER4"           -> pre.a
    [] clock = "ASY"            -> 1     \* warning logged

\* clock_queue_cmp(a, b): b goes before a, on (tick, priority)
clock_queue_cmp(a, b) ==
  \/ a.tick > b.tick
  \/ a.tick = b.tick /\ a.priority > b.priority

RECURSIVE push_heap_at(_, _, _, _)
\* std::__push_heap: move value up from the hole at index holeIndex (0-based)
\* while its parent compares before it; never above topIndex
push_heap_at(q, holeIndex, topIndex, value) ==
  LET parent == (holeIndex - 1) \div 2
  IN  IF holeIndex > topIndex /\ clock_queue_cmp(q[parent + 1], value)
      THEN push_heap_at([q EXCEPT ![holeIndex + 1] = q[parent + 1]], parent, topIndex, value)
      ELSE [q EXCEPT ![holeIndex + 1] = value]

\* std::push_heap(begin, end, clock_queue_cmp): the last element joins the heap
push_heap(q) ==
  IF Len(q) = 0 THEN q ELSE push_heap_at(q, Len(q) - 1, 0, q[Len(q)])

RECURSIVE sift_down(_, _, _, _)
\* the loop of std::__adjust_heap: the hole moves down to the child that
\* compares last, while it has two children; yields [q, hole, child]
sift_down(q, holeIndex, secondChild, len) ==
  IF secondChild < (len - 1) \div 2
  THEN LET c2 == 2 * (secondChild + 1)
           c  == IF clock_queue_cmp(q[c2 + 1], q[c2]) THEN c2 - 1 ELSE c2
       IN  sift_down([q EXCEPT ![holeIndex + 1] = q[c + 1]], c, c, len)
  ELSE [q |-> q, hole |-> holeIndex, child |-> secondChild]

\* std::__adjust_heap(first, holeIndex, len, value) on the first len elements
adjust_heap(q, holeIndex, len, value) ==
  LET d  == sift_down(q, holeIndex, holeIndex, len)
      d2 == IF len % 2 = 0 /\ d.child = (len - 2) \div 2
            THEN [q    |-> [d.q EXCEPT ![d.hole + 1] = d.q[2 * (d.child + 1)]],
                  hole |-> 2 * (d.child + 1) - 1]
            ELSE [q |-> d.q, hole |-> d.hole]
  IN  push_heap_at(d2.q, d2.hole, holeIndex, value)

\* std::pop_heap(begin, end, clock_queue_cmp): the first element goes last,
\* the others stay a heap
pop_heap(q) ==
  IF Len(q) <= 1 THEN q
  ELSE LET n     == Len(q)
           value == q[n]
       IN  adjust_heap([q EXCEPT ![n] = q[1]], 0, n - 1, value)

RECURSIVE make_heap_from(_, _)
\* the loop of std::make_heap, from index parent down to 0
make_heap_from(q, parent) ==
  LET q1 == adjust_heap(q, parent, Len(q), q[parent + 1])
  IN  IF parent = 0 THEN q1 ELSE make_heap_from(q1, parent - 1)

\* a make_heap that leaves the vector as it is
make_heap_none(q) == q

\* std::make_heap(begin, end, clock_queue_cmp)
make_heap(q) ==
  IF Len(q) < 2 THEN q ELSE make_heap_from(q, (Len(q) - 2) \div 2)

\* vector::pop_back
pop_back(q) == SubSeq(q, 1, Len(q) - 1)

\* vector::erase of the element at index i (1-based)
erase_at(q, i) == SubSeq(q, 1, i - 1) \o SubSeq(q, i + 1, Len(q))

----------------------------------------------------------------------------
\* Clock scheduler: operations

\* addresses of the live events; any other address may be handed out again
LiveAddrs(q) == {q[i].addr : i \in 1 .. Len(q)}

\* the addresses operator new can return for the ClockEvent numbered serial:
\* one never used before (all of these are alike, serial stands for them) or
\* the address of a freed event that a handle in hs still points to
freeAddrs(q, hs, serial) == ({serial} \cup {h.addr : h \in hs}) \ LiveAddrs(q)

\* an event placed ticks domain ticks after the current SYS tick, not after
\* the domain tick the SYS tick lies in
newClockEvent_unaligned(clock, cb, priority, ticks, now, pre, addr, serial) ==
  LET scale == getClockScale(clock, pre)
  IN  [addr |-> addr, serial |-> serial, called |-> FALSE, clock |-> clock, cb |-> cb,
       priority |-> priority, tick |-> now + ticks * scale, scale |-> scale]

\* an event placed ticks domain ticks after SYS tick 0
newClockEvent_absolute(clock, cb, priority, ticks, now, pre, addr, serial) ==
  LET scale == getClockScale(clock, pre)
  IN  [addr |-> addr, serial |-> serial, called |-> FALSE, clock |-> clock, cb |-> cb,
       priority |-> priority, tick |-> ticks * scale, scale |-> scale]

\* new ClockEvent{clock, cb, priority, (clk_sys_tick_/scale+ticks) * scale, scale}
\* at address addr; serial numbers the objects in creation order, called
\* tells whether the callback has been called yet
newClockEvent(clock, cb, priority, ticks, now, pre, addr, serial) ==
  LET scale == getClockScale(clock, pre)
  IN  [addr |-> addr, serial |-> serial, called |-> FALSE, clock |-> clock, cb |-> cb,
       priority |-> priority, tick |-> (now \div scale + ticks) * scale,
       scale |-> scale]

\* Device::schedule: the queue with event ev added
schedule(q, ev) == push_heap(Append(q, ev))

\* index of the first element whose address is ev, 0 when there is none
findEvent(q, ev) ==
  LET hits == {i \in 1 .. Len(q) : q[i].addr = ev}
  IN  IF hits = {} THEN 0 ELSE SetMin(hits)

\* Device::unschedule(ev): the queue without the first element at address ev;
\* unchanged (and an error logged) when no element has that address
unschedule(q, ev) ==
  IF findEvent(q, ev) = 0 THEN q ELSE make_heap(erase_at(q, findEvent(q, ev)))

\* (ev->tick - clk_sys_tick_) % ev->scale in unsigned arithmetic; every scale
\* is a power of two, so 2^32 - k is congruent to -k
ticksLeftModScale(ev, now) ==
  IF ev.tick >= now THEN (ev.tick - now) % ev.scale
  ELSE (ev.scale - ((now - ev.tick) % ev.scale)) % ev.scale

\* dt = (ev->tick - clk_sys_tick_ + ev->scale-1) / ev->scale in unsigned
\* arithmetic: the sum wraps past 2^32 when the event is less than one scale
\* in the past
ticksLeft(ev, now) ==
  IF ev.tick >= now THEN (ev.tick - now + ev.scale - 1) \div ev.scale
  ELSE IF now - ev.tick < ev.scale THEN (ev.scale - 1 - (now - ev.tick)) \div ev.scale
  ELSE (Pow2(32) - (now - ev.tick) + ev.scale - 1) \div ev.scale

\* a loop body that gives the event its new scale and leaves its tick
rescaleEvent_scaleOnly(ev, now, pre) ==
  [ev EXCEPT !.scale = getClockScale(ev.clock, pre)]

\* the loop body of onClockConfigChange for one event
rescaleEvent(ev, now, pre) ==
  LET scale == getClockScale(ev.clock, pre)
  IN  IF ev.scale = scale THEN ev
      ELSE [ev EXCEPT !.tick = now + ticksLeft(ev, now) * scale, !.scale = scale]

\* the assert of onClockConfigChange holds for every event it rescales
rescaleAssertHolds(q, now, pre) ==
  \A i \in 1 .. Len(q) :
     q[i].scale # getClockScale(q[i].clock, pre) => ticksLeftModScale(q[i], now) = 0

\* Device::onClockConfigChange: every event rescaled, then the heap rebuilt
onClockConfigChange(q, now, pre) ==
  make_heap([i \in 1 .. Len(q) |-> rescaleEvent(q[i], now, pre)])

\* a stepCPU that detaches itself
callbackReturn_detach(ev, rets) == IF ev.cb = "cpu" THEN 0 ELSE rets[ev.serial]

\* what a callback returns: stepCPU returns 1, a block's callback the ticks
\* to its next call or 0
callbackReturn(ev, rets) == IF ev.cb = "cpu" THEN 1 ELSE rets[ev.serial]

\* a loop that stops at the events due now
loopBreaks_atNow(ev, now) == ev.tick >= now

\* if(ev->tick > clk_sys_tick_) break;
loopBreaks(ev, now) == ev.tick > now

\* a tick advanced by domain ticks taken for SYS ticks
nextTick_unscaled(ev, next) == ev.tick + next

\* ev->tick += next * ev->scale
nextTick(ev, next) == ev.tick + next * ev.scale

RECURSIVE drain(_, _, _, _)
\* the for(;;) loop of Device::step at SYS tick now, rets the values the
\* callbacks return: [q, fired, fault]
drain(q, now, rets, fired) ==
  IF q = <<>> THEN [q |-> q, fired |-> fired, fault |-> "front of empty queue"]
  ELSE IF loopBreaks(q[1], now) THEN [q |-> q, fired |-> fired, fault |-> "none"]
  ELSE LET ev    == q[1]
           next  == callbackReturn(ev, rets)
           call  == [serial |-> ev.serial, priority |-> ev.priority, tick |-> ev.tick,
                     scale |-> ev.scale, cb |-> ev.cb, called |-> ev.called, ret |-> next]
       IN  IF next # 0
           THEN drain(push_heap(pop_heap([q EXCEPT ![1].tick = nextTick(ev, next),
                                                    ![1].called = TRUE])),
                      now, rets, Append(fired, call))
           ELSE drain(pop_back(pop_heap(q)), now, rets, Append(fired, call))

----------------------------------------------------------------------------
\* Clock scheduler: calls made between two step() calls, and step()

\* the CPU state a scheduler call leaves alone
deviceVars == <<hostVars, iv_pending_, setIvLvl_log, pmic_ctrl_, cpuVars, ccpVars, regfile_>>

\* a block calls Device::schedule(clock, cb, ticks, priority) and keeps the
\* handle it returns
Schedule(clock, ticks, priority) ==
  /\ fault = "none"
  /\ Len(clk_sys_queue_) < MaxEvents
  /\ events_created < MaxCreated
  /\ \E addr \in freeAddrs(clk_sys_queue_, handles, events_created + 1) :
        LET ev == newClockEvent(clock, "block", priority, ticks, clk_sys_tick_,
                                clk_prescaler_, addr, events_created + 1)
        IN  /\ ev.tick <= MaxTick
            /\ clk_sys_queue_' = schedule(clk_sys_queue_, ev)
            /\ handles' = handles \cup {[addr |-> addr, serial |-> ev.serial]}
            /\ sched_log' = [op |-> "schedule", clock |-> clock, ticks |-> ticks,
                             priority |-> priority, serial |-> ev.serial]
  /\ events_created' = events_created + 1
  /\ UNCHANGED <<deviceVars, clk_sys_tick_, clk_prescaler_, clk_, fault, stepcpu_tick>>

\* a block calls Device::unschedule with a handle it holds
Unschedule(h) ==
  /\ fault = "none"
  /\ h \in handles
  /\ clk_sys_queue_' = unschedule(clk_sys_queue_, h.addr)
  /\ sched_log' = [op |-> "unschedule", handle |-> h,
                   error |-> IF findEvent(clk_sys_queue_, h.addr) = 0
                             THEN "cannot unschedule event: not found" ELSE "none"]
  /\ UNCHANGED <<deviceVars, clk_sys_tick_, clk_prescaler_, clk_, fault, events_created, handles,
                 stepcpu_tick>>

\* CLK::setIo on PSCTRL: prescalerA_div_, prescalerB_div_, prescalerC_div_
\* for the fields psadiv, psbcdiv
prescalerDivs(psadiv, psbcdiv) ==
  [a |-> Shl1(psadiv),
   b |-> IF BitAnd(psbcdiv, 2) # 0 THEN Shl1(4 - psbcdiv) ELSE 1,
   c |-> Shl1(BitAnd(psbcdiv, 1))]

\* CLK::setIo on PSCTRL (LOCK clear) with fields psadiv, psbcdiv: the
\* prescaler divisors follow the register; psadiv > 9 is refused
ClkSetPsctrl(psadiv, psbcdiv) ==
  /\ fault = "none"
  /\ ~clk_.locked
  /\ clk_prescaler_' =
       IF psadiv > 9 THEN clk_prescaler_ ELSE prescalerDivs(psadiv, psbcdiv)
  /\ clk_' =
       IF psadiv > 9 THEN clk_
       ELSE [clk_ EXCEPT !.psctrl = [psadiv |-> psadiv, psbcdiv |-> psbcdiv]]
  /\ sched_log' = [op |-> "psctrl"]
  /\ UNCHANGED <<deviceVars, clk_sys_tick_, clk_sys_queue_, fault, events_created, handles,
                 stepcpu_tick>>

\* SCLKSEL_PLL, the last system clock source of the CTRL register
SCLKSEL_PLL == 4

\* the fields of a PSCTRL byte: PSBCDIV in bits 0-1, PSADIV in bits 2-6
psctrlFields(data) == [psadiv |-> data \div 4, psbcdiv |-> data % 4]

\* a CLK::setIo whose PSCTRL branch does not test locked_
clkSetIo_psctrlUnlocked(addr, v) ==
  IF addr = 0 /\ ~clk_.locked
    THEN IF BitAnd(v, 7) > SCLKSEL_PLL
           THEN [clk |-> clk_, pre |-> clk_prescaler_, logged |-> "error"]
           ELSE [clk |-> [clk_ EXCEPT !.sclk = BitAnd(v, 7)], pre |-> clk_prescaler_,
                 logged |-> "none"]
  ELSE IF addr = 1
    THEN LET vreg == psctrlFields(BitAnd(v, 127))
         IN  IF vreg.psadiv > 9
               THEN [clk |-> clk_, pre |-> clk_prescaler_, logged |-> "error"]
               ELSE [clk |-> [clk_ EXCEPT !.psctrl = vreg],
                     pre |-> prescalerDivs(vreg.psadiv, vreg.psbcdiv), logged |-> "none"]
  ELSE IF addr = 2
    THEN IF ~clk_.locked /\ v # 0
           THEN IF BitAnd(ccpState, CCP_IOREG) # 0
                  THEN [clk |-> [clk_ EXCEPT !.locked = TRUE], pre |-> clk_prescaler_,
                        logged |-> "notice"]
                  ELSE [clk |-> clk_, pre |-> clk_prescaler_, logged |-> "error"]
         ELSE IF clk_.locked /\ v = 0
           THEN [clk |-> clk_, pre |-> clk_prescaler_, logged |-> "error"]
         ELSE [clk |-> clk_, pre |-> clk_prescaler_, logged |-> "none"]
  ELSE IF addr = 3
    THEN [clk |-> clk_, pre |-> clk_prescaler_, logged |-> "none"]
  ELSE [clk |-> clk_, pre |-> clk_prescaler_, logged |-> "error"]

\* CLK::setIo(addr, v): the registers and prescaler divisors it leaves and
\* the level of the message it logs; rtcen_ and rtcsrc_, which a write to
\* RTCCTRL (0x03) sets, are not part of the model
clkSetIo(addr, v) ==
  IF addr = 0 /\ ~clk_.locked
    THEN IF BitAnd(v, 7) > SCLKSEL_PLL
           THEN [clk |-> clk_, pre |-> clk_prescaler_, logged |-> "error"]
           ELSE [clk |-> [clk_ EXCEPT !.sclk = BitAnd(v, 7)], pre |-> clk_prescaler_,
                 logged |-> "none"]
  ELSE IF addr = 1 /\ ~clk_.locked
    THEN LET vreg == psctrlFields(BitAnd(v, 127))
         IN  IF vreg.psadiv > 9
               THEN [clk |-> clk_, pre |-> clk_prescaler_, logged |-> "error"]
               ELSE [clk |-> [clk_ EXCEPT !.psctrl = vreg],
                     pre |-> prescalerDivs(vreg.psadiv, vreg.psbcdiv), logged |-> "none"]
  ELSE IF addr = 2
    THEN IF ~clk_.locked /\ v # 0
           THEN IF BitAnd(ccpState, CCP_IOREG) # 0
                  THEN [clk |-> [clk_ EXCEPT !.locked = TRUE], pre |-> clk_prescaler_,
                        logged |-> "notice"]
                  ELSE [clk |-> clk_, pre |-> clk_prescaler_, logged |-> "error"]
         ELSE IF clk_.locked /\ v = 0
           THEN [clk |-> clk_, pre |-> clk_prescaler_, logged |-> "error"]
         ELSE [clk |-> clk_, pre |-> clk_prescaler_, logged |-> "none"]
  ELSE IF addr = 3
    THEN [clk |-> clk_, pre |-> clk_prescaler_, logged |-> "none"]
  ELSE [clk |-> clk_, pre |-> clk_prescaler_, logged |-> "error"]

\* a write of v to the CLK register at addr
ClkSetIo(addr, v) ==
  /\ fault = "none"
  /\ clk_' = clkSetIo(addr, v).clk
  /\ clk_prescaler_' = clkSetIo(addr, v).pre
  /\ sched_log' = [op |-> "clkSetIo", addr |-> addr, v |-> v, logged |-> clkSetIo(addr, v).logged]
  /\ UNCHANGED <<deviceVars, clk_sys_tick_, clk_sys_queue_, fault, events_created, handles,
                 stepcpu_tick>>

\* Device::onClockConfigChange; where its assert does not hold a build with
\* asserts stops and a build without them goes on
OnClockConfigChange ==
  /\ fault = "none"
  /\ \/ /\ clk_sys_queue_' = onClockConfigChange(clk_sys_queue_, clk_sys_tick_, clk_prescaler_)
        /\ \A i \in 1 .. Len(clk_sys_queue_') : clk_sys_queue_'[i].tick <= MaxTick
        /\ fault' = "none"
     \/ /\ ~rescaleAssertHolds(clk_sys_queue_, clk_sys_tick_, clk_prescaler_)
        /\ clk_sys_queue_' = clk_sys_queue_
        /\ fault' = "assert in onClockConfigChange"
  /\ sched_log' = [op |-> "onClockConfigChange",
                   rescaled |-> {clk_sys_queue_[i].serial : i \in
                                   {j \in 1 .. Len(clk_sys_queue_) :
                                      clk_sys_queue_[j].scale #
                                        getClockScale(clk_sys_queue_[j].clock, clk_prescaler_)}}]
  /\ UNCHANGED <<deviceVars, clk_sys_tick_, clk_prescaler_, clk_, events_created, handles,
                 stepcpu_tick>>

\* Device::step(): SYS time moves to the tick of the first event and the loop
\* calls every event due; the CPU event's callback is stepCPU
Step(rets, opcode) ==
  /\ fault = "none"
  /\ clk_sys_queue_ # <<>>
  /\ LET now == clk_sys_queue_[1].tick
         d   == drain(clk_sys_queue_, now, rets, <<>>)
     IN  /\ \A i \in 1 .. Len(d.q) : d.q[i].tick <= MaxTick
         /\ clk_sys_tick_' = now
         /\ clk_sys_queue_' = d.q
         /\ fault' = d.fault
         /\ sched_log' = [op |-> "step", fired |-> d.fired]
         /\ IF \E i \in 1 .. Len(d.fired) : d.fired[i].cb = "cpu"
              THEN StepCPU(opcode) /\ stepcpu_tick' = now
              ELSE UNCHANGED <<deviceVars, stepcpu_tick>>
  /\ UNCHANGED <<clk_prescaler_, clk_, events_created, handles>>

\* Device::step() on an empty queue: the assert stops a build with asserts,
\* front() of an empty vector is undefined in a build without
StepEmpty ==
  /\ fault = "none"
  /\ clk_sys_queue_ = <<>>
  /\ fault' \in {"assert in step", "front of empty queue"}
  /\ sched_log' = [op |-> "step", fired |-> <<>>]
  /\ UNCHANGED <<deviceVars, clk_sys_tick_, clk_sys_queue_, clk_prescaler_, clk_, events_created,
                 handles, stepcpu_tick>>

----------------------------------------------------------------------------
\* States of the device

NoPending == [lo |-> {}, med |-> {}, hi |-> {}, nmi |-> {}]

\* the pending queues any sequence of setIvLvl calls over IVs can leave
PendingStates(IVs) ==
  {p \in [lo : SUBSET IVs, med : SUBSET IVs, hi : SUBSET IVs, nmi : SUBSET IVs] :
     \A q1, q2 \in Queues : q1 # q2 => p[q1] \cap p[q2] = {}}

\* number of bits set in the PMIC status byte: the interrupt nesting depth
Nesting(status) == Bit(status, 0) + Bit(status, 1) + Bit(status, 2) + Bit(status, 3)

\* prescalers A, B, C after CLK::reset: all dividing by 1
PrescalerReset == [a |-> 1, b |-> 1, c |-> 1]

\* a stepCPU event due at once
cpuStepEvent_now(now, pre, addr, serial) ==
  newClockEvent("CPU", "cpu", 100, 0, now, pre, addr, serial)

\* the event Device::reset schedules: stepCPU on the CPU clock, 1 tick ahead,
\* priority 100
cpuStepEvent(now, pre, addr, serial) ==
  newClockEvent("CPU", "cpu", 100, 1, now, pre, addr, serial)

\* CLK::reset: SCLKSEL_RC2M, PSCTRL 0, LOCK clear
ClkReset == [sclk |-> 0, psctrl |-> [psadiv |-> 0, psbcdiv |-> 0], locked |-> FALSE]

\* the PSCTRL fields that give the prescalers pre
psctrlOf(pre) ==
  CHOOSE f \in [psadiv : 0 .. 9, psbcdiv : 0 .. 3] : prescalerDivs(f.psadiv, f.psbcdiv) = pre

\* registers, scheduler and CLK as reset() leaves them on a new device
SchedResetState ==
  /\ regfile_ = [r \in 0 .. 31 |-> 0]
  /\ clk_sys_tick_ = 0
  /\ clk_prescaler_ = PrescalerReset
  /\ clk_ = ClkReset
  /\ clk_sys_queue_ = <<cpuStepEvent(0, PrescalerReset, 1, 1)>>
  /\ fault = "none"
  /\ events_created = 1
  /\ handles = {}
  /\ stepcpu_tick = -1
  /\ sched_log = [op |-> "reset", events |-> 0, regs |-> {}]

\* registers, scheduler and CLK after reset(), a PSCTRL write that sets the
\* prescalers to pre and the call of onClockConfigChange
SchedClockedState(pre) ==
  /\ regfile_ = [r \in 0 .. 31 |-> 0]
  /\ clk_sys_tick_ = 0
  /\ clk_prescaler_ = pre
  /\ clk_ = [ClkReset EXCEPT !.psctrl = psctrlOf(pre)]
  /\ clk_sys_queue_ = onClockConfigChange(<<cpuStepEvent(0, PrescalerReset, 1, 1)>>, 0, pre)
  /\ fault = "none"
  /\ events_created = 1
  /\ handles = {}
  /\ stepcpu_tick = -1
  /\ sched_log = [op |-> "onClockConfigChange", rescaled |-> IF getClockScale("CPU", pre) # 1 THEN {1} ELSE {}]

\* flash_data_(flash_size_/2, 0xFFFF): the flash of a new device
flashErased(c) == [i \in 0 .. c.flash_size \div 2 - 1 |-> 65535]

\* a device built with configuration c whose constructor has connected the
\* blocks of Connected, with flash words flash
BuiltWith(c, flash) ==
  /\ conf = c
  /\ flash_data_ = flash
  /\ registry_ = connectAll(NoBlocks, Connected)
  /\ host_log = [op |-> "none"]

\* the same with a program in the flash of which the model fixes no word
BuiltState(c) == BuiltWith(c, <<>>)

\* CPU::reset: RAMPD, RAMPX, RAMPY, RAMPZ and EIND zero
RampReset == [d |-> 0, x |-> 0, y |-> 0, z |-> 0, eind |-> 0]

\* nothing remembered of stack instructions, calls, data-memory writes and
\* CCP writes
GhostResetState ==
  /\ push_log = <<>>
  /\ frame_log = <<>>
  /\ alu_log = NoAlu
  /\ sram_written = <<>>
  /\ ccp_log = [v |-> 0, steps |-> -1]

\* CPU, PMIC, pending vectors and what the model remembers, as reset()
\* leaves them on a new device
CpuRegsResetState(c) ==
  /\ GhostResetState
  /\ cpu_ramp_ = RampReset
  /\ iv_pending_ = NoPending
  /\ pmic_status_ = 0
  /\ pmic_ctrl_ = CtrlReset
  /\ sreg_ = 0
  /\ cpu_pc_ = 0
  /\ cpu_sp_ = MEM_SRAM_START + c.mem_sram_size - 1
  /\ sram_data_ = [a \in 0 .. c.mem_sram_size - 1 |-> 0]
  /\ ccp_buffer_ = 0
  /\ ccp_ioreg_cycles_ = 0
  /\ ccp_spm_cycles_ = 0
  /\ instruction_cycles_ = 0
  /\ interrupt_wait_instruction_ = TRUE
  /\ breaked_ = FALSE
  /\ executeIv_calls = <<>>
  /\ cpu_step_did = "none"
  /\ steps_since_ack = -1
  /\ setIvLvl_log = <<>>
  /\ asm_critical = "none"

\* the same with the device around them
CpuResetState(c) == BuiltState(c) /\ CpuRegsResetState(c)

\* the state reset() leaves on a device whose flash is as the constructor
\* leaves it
NewDeviceState(c) ==
  SchedResetState /\ BuiltWith(c, flashErased(c)) /\ CpuRegsResetState(c)

\* the state reset() leaves on a device built with configuration c
ResetState(c) == SchedResetState /\ CpuResetState(c)

\* a state at an instruction boundary of a running program: queues p, PMIC
\* status s and ctrl c, PC at pc, `frames` return frames (of PC 0) on the stack
CpuFramesState(cf, p, s, c, pc, sreg, frames) ==
  /\ BuiltState(cf)
  /\ GhostResetState
  /\ cpu_ramp_ = RampReset
  /\ iv_pending_ = p
  /\ pmic_status_ = s
  /\ pmic_ctrl_ = c
  /\ sreg_ = sreg
  /\ cpu_pc_ = pc
  /\ cpu_sp_ = MEM_SRAM_START + cf.mem_sram_size - 1 - frames * frameBytes(cf.flash_size)
  /\ sram_data_ = [a \in 0 .. cf.mem_sram_size - 1 |-> 0]
  /\ ccp_buffer_ = 0
  /\ ccp_ioreg_cycles_ = 0
  /\ ccp_spm_cycles_ = 0
  /\ instruction_cycles_ = 0
  /\ interrupt_wait_instruction_ = FALSE
  /\ breaked_ = FALSE
  /\ executeIv_calls = <<>>
  /\ cpu_step_did = "exec"
  /\ steps_since_ack = -1
  /\ setIvLvl_log = <<>>
  /\ asm_critical = "none"

\* the same, in a device whose scheduler and CLK are as reset() leaves them
FramesState(cf, p, s, c, pc, sreg, frames) ==
  SchedResetState /\ CpuFramesState(cf, p, s, c, pc, sreg, frames)

\* a state at an instruction boundary of a program running with interrupts
\* enabled: one return frame on the stack per level in service
RunningState(cf, p, s, c, pc, sreg) == FramesState(cf, p, s, c, pc, sreg, Nesting(s))

\* Device::reset() on a running device: the queue is emptied and its events
\* freed, CLK, CPU and PMIC are reset, stepCPU is scheduled anew, the register
\* file is zeroed; the pending vectors, breaked_ and the SRAM stay
Reset ==
  /\ fault = "none"
  /\ events_created < MaxCreated
  /\ instruction_cycles_' = 0
  /\ interrupt_wait_instruction_' = TRUE
  /\ clk_sys_tick_' = 0
  /\ clk_prescaler_' = PrescalerReset
  /\ clk_' = ClkReset
  /\ \E addr \in freeAddrs(<<>>, handles, events_created + 1) :
        clk_sys_queue_' = schedule(<<>>, cpuStepEvent(0, PrescalerReset, addr, events_created + 1))
  /\ events_created' = events_created + 1
  /\ ccp_buffer_' = 0
  /\ ccp_ioreg_cycles_' = 0
  /\ ccp_spm_cycles_' = 0
  /\ ccp_log' = [v |-> 0, steps |-> -1]
  /\ push_log' = <<>>
  /\ frame_log' = <<>>
  /\ alu_log' = NoAlu
  /\ cpu_ramp_' = RampReset
  /\ cpu_sp_' = MEM_SRAM_START + conf.mem_sram_size - 1
  /\ sreg_' = 0
  /\ cpu_pc_' = 0
  /\ pmic_status_' = 0
  /\ pmic_ctrl_' = CtrlReset
  /\ regfile_' = [r \in 0 .. 31 |-> 0]
  /\ executeIv_calls' = <<>>
  /\ cpu_step_did' = "none"
  /\ steps_since_ack' = -1
  /\ asm_critical' = "none"
  /\ stepcpu_tick' = -1
  /\ sched_log' = [op |-> "reset", events |-> Len(clk_sys_queue_),
                   regs |-> {r \in 0 .. 31 : regfile_[r] # 0}]
  /\ UNCHANGED <<hostVars, iv_pending_, setIvLvl_log, breaked_, sram_data_, sram_written,
                 fault, handles>>

\* a caller writes v to register r through Device::regfile()
RegfileWrite(r, v) ==
  /\ fault = "none"
  /\ regfile_' = [regfile_ EXCEPT ![r] = v]
  /\ UNCHANGED <<hostVars, iv_pending_, setIvLvl_log, pmic_ctrl_, cpuVars, ccpVars, schedVars>>

\* the serials of the block events a step() from queue q calls
BlockDueSerials(q) ==
  {q[i].serial : i \in {j \in 1 .. Len(q) : q[j].tick <= q[1].tick /\ q[j].cb # "cpu"}}

----------------------------------------------------------------------------
\* SpecSched: the scheduler under each of two prescaler settings: blocks
\* scheduling and unscheduling events between steps of a program that loops
\* in place

NextSched ==
  \/ \E clock \in {"SYS", "PER", "PER4"}, ticks \in 0 .. 2, priority \in {10, 100} :
       Schedule(clock, ticks, priority)
  \/ \E h \in handles : Unschedule(h)
  \/ \E rets \in [BlockDueSerials(clk_sys_queue_) -> 0 .. 2] : Step(rets, OP_RJMP_SELF)

\* from the device after reset, or after reset, a PSCTRL write that sets
\* prescalers A and C to 2 and the clock configuration change
SpecSched ==
  /\ \E pre \in {PrescalerReset, [a |-> 2, b |-> 1, c |-> 2]} :
        SchedClockedState(pre) /\ CpuResetState(ConfSmall)
  /\ [][NextSched]_vars

----------------------------------------------------------------------------
\* SpecClock: the scheduler from reset with the program writing PSCTRL, each
\* write followed by the clock configuration change

\* every live event has the scale its clock has now: no clock configuration
\* change is outstanding
InSync ==
  \A i \in 1 .. Len(clk_sys_queue_) :
     clk_sys_queue_[i].scale = getClockScale(clk_sys_queue_[i].clock, clk_prescaler_)

\* PSCTRL is written by an instruction of the program, in a stepCPU call, and
\* the clock configuration change is made before anything else happens; the
\* writes set prescaler A to 1 or 2 (psadiv 10 is invalid) and C to 1 or 2
NextClock ==
  \/ \E clock \in {"PER", "PER4"}, ticks \in 0 .. 2 :
       InSync /\ Schedule(clock, ticks, 10)
  \/ \E h \in handles : InSync /\ Unschedule(h)
  \/ \E psadiv \in {0, 1, 10}, psbcdiv \in {0, 1} :
       InSync /\ stepcpu_tick = clk_sys_tick_ /\ ClkSetPsctrl(psadiv, psbcdiv)
  \/ OnClockConfigChange
  \/ \E rets \in [BlockDueSerials(clk_sys_queue_) -> {0, 1}] :
       InSync /\ Step(rets, OP_RJMP_SELF)

SpecClock == ResetState(ConfSmall) /\ [][NextClock]_vars

----------------------------------------------------------------------------
\* SpecReset: resets of a running device: registers written, a vector posted
\* and acknowledged (its return frame in SRAM), events scheduled

NextReset ==
  \/ \E r \in {0, 31} : RegfileWrite(r, 255)
  \/ \E lvl \in {INTLVL_NONE, INTLVL_LO} : SetIvLvl(14, lvl) /\ fault = "none"
  \/ PmicSetCtrl(CtrlAllOn) /\ fault = "none"
  \/ \E ticks \in 1 .. 2 : Schedule("PER", ticks, 10)
  \/ \E h \in handles : Unschedule(h)
  \/ \E rets \in [BlockDueSerials(clk_sys_queue_) -> {0, 1}], opcode \in {OP_SEI, OP_RJMP_SELF} :
       Step(rets, opcode)
  \/ Reset

SpecReset == ResetState(ConfSmall) /\ [][NextReset]_vars

----------------------------------------------------------------------------
\* SpecReti: RETI on both device sizes from every PMIC status, in handlers
\* and in a subroutine called from the program or from a handler

NextReti == \E opcode \in {OP_RETI, OP_RJMP_SELF} : StepCPU(opcode) /\ UNCHANGED schedVars

SpecReti ==
  /\ \E cf \in ModelConfs, s \in 0 .. 15, sreg \in {0, 128}, calls \in {0, 1}, pc \in {28, 40} :
        FramesState(cf, NoPending, s, CtrlAllOn, pc, sreg, Nesting(s) + calls)
  /\ [][NextReti]_vars

----------------------------------------------------------------------------
\* SpecSkip: a program of skip instructions from the reset vector, each
\* followed by a one-word or a two-word instruction, on registers the host has
\* written and I/O registers that read as any of three values

\* the last word address at which the modelled programs hold an instruction
MaxPc == 4

\* the flash word after a skip instruction
NextWords == {OP_JMP, OP_CALL, OP_LDS, OP_STS, OP_NOP, OP_LDI_R16_CC}

\* register and I/O register values: no bit, bit 0, bit 7
SkipBytes == {0, 1, 128}

NextSkip ==
  \/ \E r \in {0, 31}, v \in SkipBytes : RegfileWrite(r, v)
  \/ \E opcode \in SkipOpcodes, opcode2 \in NextWords, io \in SkipBytes :
       /\ cpu_pc_ <= MaxPc
       /\ StepCPUFetch(opcode, opcode2, io)
       /\ UNCHANGED schedVars

SpecSkip == ResetState(ConfSmall) /\ [][NextSkip]_vars

----------------------------------------------------------------------------
\* SpecCycles: step() calls on both device sizes with the CPU clock at SYS
\* and at SYS/2, the stepCPU event alone in the queue, in a program of BREAK,
\* RETI and a jump in place, with a vector pending from the start or posted
\* between steps

NextCycles ==
  \/ \E rets \in [BlockDueSerials(clk_sys_queue_) -> {0}],
        opcode \in {OP_BREAK, OP_RETI, OP_RJMP_SELF} : Step(rets, opcode)
  \/ SetIvLvl(14, INTLVL_HI) /\ fault = "none"

SpecCycles ==
  /\ \E cf \in ModelConfs, p \in PendingStates({14}), s \in {0, 1}, sreg \in {0, 128},
        pre \in {PrescalerReset, [a |-> 2, b |-> 1, c |-> 1]} :
          /\ SchedClockedState(pre)
          /\ CpuFramesState(cf, p, s, CtrlAllOn, 0, sreg, Nesting(s))
  /\ [][NextCycles]_vars

----------------------------------------------------------------------------
\* Spec: the device from reset, two vectors of one block, PMIC levels all
\* enabled or all disabled

SpecIVs == {14, 15}

Init == ResetState(ConfSmall)

Next ==
  \/ \E iv \in SpecIVs, lvl \in INTLVL_NONE .. INTLVL_NMI : SetIvLvl(iv, lvl)
  \/ PmicSetCtrl(CtrlAllOn)
  \/ \E opcode \in {OP_SEI, OP_RJMP_SELF, OP_RETI} :
       StepCPU(opcode) /\ Nesting(pmic_status_') <= MaxNesting /\ UNCHANGED schedVars

Spec == Init /\ [][Next]_vars

----------------------------------------------------------------------------
\* SpecSetIv: blocks posting, moving and clearing vectors, each call logged

InitSetIv == ResetState(ConfSmall)

NextSetIv == \E iv \in ModelIVs, lvl \in ModelLvls : SetIvLvlLogged(iv, lvl)

SpecSetIv == InitSetIv /\ [][NextSetIv]_vars

----------------------------------------------------------------------------
\* SpecArb: CPU steps from every combination of pending queues, PMIC status
\* and PMIC level enables, in a program that loops in place

InitArb ==
  \E p \in PendingStates(ModelIVs), s \in 0 .. 15, c \in CtrlValues :
     /\ ~c.ivsel
     /\ RunningState(ConfSmall, p, s, c, 1, 128)

NextArb == StepCPU(OP_RJMP_SELF) /\ UNCHANGED schedVars

SpecArb == InitArb /\ [][NextArb]_vars

----------------------------------------------------------------------------
\* SpecDispatch: CPU steps on both device sizes, with and without IVSEL, from
\* program counters that fill every byte of the return frame

DispatchIVs == {15, 20}

\* a PC in the flash of configuration cf whose bytes are all different
DispatchPCs(cf) == IF cf.flash_size <= FLASH_16BIT_PC_MAX THEN {291, 43981} ELSE {291, 66051}

InitDispatch ==
  \E cf \in ModelConfs, p \in PendingStates(DispatchIVs), s \in 0 .. 15, c \in CtrlValues :
     \E pc \in DispatchPCs(cf) : RunningState(cf, p, s, c, pc, 128)

NextDispatch == StepCPU(OP_RJMP_SELF) /\ UNCHANGED schedVars

SpecDispatch == InitDispatch /\ [][NextDispatch]_vars

----------------------------------------------------------------------------
\* SpecMask: CPU steps with SREG.I set or clear and CCP windows opening and
\* closing, all levels enabled

MaskIVs == {14, 15}

\* values written to the CCP register: the two signatures and another value
CcpValues == {157, 216, 85}

InitMask ==
  \E p \in PendingStates(MaskIVs), sreg \in {0, 128} :
     RunningState(ConfSmall, p, 0, CtrlAllOn, 0, sreg)

NextMask ==
  \/ \E opcode \in {OP_SEI, OP_CLI, OP_RJMP_SELF} : StepCPU(opcode) /\ UNCHANGED schedVars
  \/ \E v \in CcpValues : CpuSetIoCCP(v)
  \/ CpuStep

SpecMask == InitMask /\ [][NextMask]_vars

----------------------------------------------------------------------------
\* Properties of the pending queues

\* the queues that hold vector iv
QueuesHolding(p, iv) == {q \in Queues : iv \in p[q]}

\* C1: in every state reached by setIvLvl calls and interrupt dispatches,
\* each vector number is a member of at most one of the four pending queues
C1_AtMostOneQueue ==
  \A iv \in 0 .. IV_MAX_COUNT - 1 : Cardinality(QueuesHolding(iv_pending_, iv)) <= 1

\* a dispatch has been made and vectors sit in different queues, one of them
\* posted at NMI level while an interrupt is in service
C1_Witness ==
  /\ pmic_status_ # 0
  /\ iv_pending_.nmi = {14}
  /\ iv_pending_.lo = {15}

\* the latest setIvLvl call
lastCall == setIvLvl_log[Len(setIvLvl_log)]

\* C2: after setIvLvl(iv, L) with L in LO..NMI, iv is in the queue of L and
\* in no other queue, whichever queue held it before; when iv was already in
\* the queue of L the call changes nothing; setIvLvl(iv, NONE) leaves iv in
\* no queue
C2_SetIvLvlPost ==
  setIvLvl_log # <<>> =>
    LET c == lastCall
    IN  /\ c.lvl \in INTLVL_LO .. INTLVL_NMI =>
             /\ QueuesHolding(iv_pending_, c.iv) = {QueueOf(c.lvl)}
             /\ c.iv \in c.before[QueueOf(c.lvl)] => iv_pending_ = c.before
        /\ c.lvl = INTLVL_NONE => QueuesHolding(iv_pending_, c.iv) = {}

\* the latest call moved a vector from the NMI queue to the HI queue, and the
\* call before it named a vector already queued at that level
C2_Witness ==
  /\ Len(setIvLvl_log) = 2
  /\ lastCall.lvl = INTLVL_HI
  /\ lastCall.iv \in lastCall.before.nmi
  /\ lastCall.iv \in iv_pending_.hi
  /\ setIvLvl_log[1].lvl = INTLVL_LO
  /\ setIvLvl_log[1].iv \in setIvLvl_log[1].before.lo

\* the two latest calls are setIvLvl(iv, L), L in LO..NMI, on a vector that
\* was not pending, followed by setIvLvl(iv, NONE)
SetThenClear ==
  /\ Len(setIvLvl_log) = 2
  /\ setIvLvl_log[1].iv = setIvLvl_log[2].iv
  /\ setIvLvl_log[1].lvl \in INTLVL_LO .. INTLVL_NMI
  /\ setIvLvl_log[2].lvl = INTLVL_NONE
  /\ QueuesHolding(setIvLvl_log[1].before, setIvLvl_log[1].iv) = {}

\* C3: for a vector that is not pending, setIvLvl(iv, L) followed by
\* setIvLvl(iv, NONE) leaves the four queues as they were before the first call
C3_SetThenClearRestores ==
  SetThenClear => iv_pending_ = setIvLvl_log[1].before

\* a set-then-clear of vector 15 while 14 and 20 are pending, 14 in the queue
\* that 15 went through
C3_Witness ==
  /\ SetThenClear
  /\ setIvLvl_log[1].iv = 15
  /\ setIvLvl_log[1].lvl = INTLVL_MED
  /\ setIvLvl_log[1].before.med = {14}
  /\ setIvLvl_log[1].before.nmi = {20}

----------------------------------------------------------------------------
\* Properties of arbitration and dispatch

\* the step is a CPU step that acknowledged an interrupt
CpuStepAck ==
  /\ cpu_step_did' = "ack"
  /\ \E opcode \in ModelOpcodes : StepCPU(opcode)

\* the step is a CPU step in which arbitration ran: processPendingInterrupts
\* was called
CpuStepArbitrates ==
  /\ dispatchGuard
  /\ \E opcode \in ModelOpcodes : StepCPU(opcode)

\* the levels whose queue the step changed
LevelsTouched ==
  {lvl \in INTLVL_LO .. INTLVL_NMI : iv_pending_'[QueueOf(lvl)] # iv_pending_[QueueOf(lvl)]}

\* the PMIC enable bit of a level; NMI has none
LevelEnabled(lvl) ==
  CASE lvl = INTLVL_LO  -> pmic_ctrl_.lolvlen
    [] lvl = INTLVL_MED -> pmic_ctrl_.medlvlen
    [] lvl = INTLVL_HI  -> pmic_ctrl_.hilvlen
    [] lvl = INTLVL_NMI -> TRUE

\* level lvl has a pending vector, is enabled, and every level in service is
\* strictly lower (no status bit of lvl or above is set)
Qualifies(lvl) ==
  /\ iv_pending_[QueueOf(lvl)] # {}
  /\ LevelEnabled(lvl)
  /\ pmic_status_ < Shl1(lvl - 1)

\* C4: a CPU step dispatches a vector of the HI, MED or LO queue only if the
\* level's enable bit is set and the level in service is strictly lower; no
\* higher level qualifies; the status bit it sets was clear before
C4_ArbitrationOrder ==
  [][CpuStepAck =>
       \E lvl \in INTLVL_LO .. INTLVL_NMI :
          /\ LevelsTouched = {lvl}
          /\ lvl # INTLVL_NMI =>
               /\ LevelEnabled(lvl)
               /\ pmic_status_ < Shl1(lvl - 1)
               /\ \A h \in lvl + 1 .. INTLVL_NMI : ~Qualifies(h)
          /\ Bit(pmic_status_, lvl - 1) = 0
          /\ pmic_status_' = pmic_status_ + Shl1(lvl - 1)]_vars

\* a MED vector was dispatched over a LO handler while a HI vector was pending
\* with the HI level disabled
C4_Witness ==
  /\ cpu_step_did = "ack"
  /\ pmic_status_ = 3
  /\ pmic_ctrl_.medlvlen /\ ~pmic_ctrl_.hilvlen
  /\ iv_pending_.hi # {}
  /\ iv_pending_.lo # {}

\* the step took the lowest vector of the NMI queue
NmiDispatched ==
  /\ cpu_step_did' = "ack"
  /\ \E iv \in iv_pending_.nmi :
        /\ \A o \in iv_pending_.nmi : iv <= o
        /\ iv_pending_' = [iv_pending_ EXCEPT !.nmi = @ \ {iv}]
  /\ Bit(pmic_status_', INTLVL_NMI - 1) = 1

\* C5 as stated: whenever arbitration runs with a non-empty NMI queue an NMI
\* vector is dispatched, whatever the enable bits and the level in service
C5_NmiAlwaysDispatched ==
  [][(CpuStepArbitrates /\ iv_pending_.nmi # {}) => NmiDispatched]_vars

\* C5: whenever arbitration runs with a non-empty NMI queue and no NMI is in
\* service (status bit nmiex clear), an NMI vector is dispatched, whatever the
\* enable bits and whichever of HI, MED, LO is in service
C5_NmiDispatchedUnlessNmiInService ==
  [][(CpuStepArbitrates /\ iv_pending_.nmi # {} /\ Bit(pmic_status_, INTLVL_NMI - 1) = 0)
       => NmiDispatched]_vars

\* an NMI vector was dispatched over a HI handler with every level disabled,
\* and another NMI vector is still pending
C5_Witness ==
  /\ cpu_step_did = "ack"
  /\ pmic_status_ = 12
  /\ pmic_ctrl_ = CtrlReset
  /\ iv_pending_.nmi # {}

\* C6: the vector a dispatch takes is the numerically lowest vector of the
\* selected queue; only that vector leaves the queue and no other queue changes
C6_LowestVectorTaken ==
  [][CpuStepAck =>
       \E lvl \in INTLVL_LO .. INTLVL_NMI :
         \E iv \in iv_pending_[QueueOf(lvl)] :
            /\ \A o \in iv_pending_[QueueOf(lvl)] : iv <= o
            /\ iv_pending_' = [iv_pending_ EXCEPT ![QueueOf(lvl)] = @ \ {iv}]
            /\ Len(executeIv_calls') = 1
            /\ executeIv_calls'[1].iv = iv - iv_blocks_(iv).iv_base
            /\ executeIv_calls'[1].block = iv_blocks_(iv).name
            /\ cpu_pc_' = ivAddr(iv, pmic_ctrl_)]_vars

\* vector 14 was taken from a HI queue that held 14, 15 and 20
C6_Witness ==
  /\ cpu_step_did = "ack"
  /\ pmic_status_ = 4
  /\ cpu_pc_ = 28
  /\ iv_pending_.hi = {15, 20}
  /\ executeIv_calls = <<[block |-> "TCC0", iv |-> 0, pc |-> 1]>>

\* C7: a dispatch of vector iv at level L sets status bit 1 << (L-1) and no
\* other, stores the PC it found in a frame at the old SP, lowers SP by 2
\* bytes when flash_size <= 0x20000 and by 3 otherwise (the width of the
\* frame), sets PC to 2*iv, plus flash_boot_start when ivsel is
\* set, calls executeIv(iv - iv_base) of the owning block while PC still has
\* its old value, and sets the cycle debt to 5, of which the step that
\* dispatched pays one
C7_DispatchEffects ==
  [][CpuStepAck =>
       \E lvl \in INTLVL_LO .. INTLVL_NMI :
         \E iv \in iv_pending_[QueueOf(lvl)] \ iv_pending_'[QueueOf(lvl)] :
           LET n == IF conf.flash_size <= 131072 THEN 2 ELSE 3
           IN  /\ Bit(pmic_status_', lvl - 1) = 1
               /\ \A b \in 0 .. 7 : b # lvl - 1 => Bit(pmic_status_', b) = Bit(pmic_status_, b)
               /\ cpu_sp_' = cpu_sp_ - n
               /\ stack_get(sram_data_', cpu_sp_, n) = cpu_pc_
               /\ cpu_pc_' = 2 * iv + (IF pmic_ctrl_.ivsel
                                       THEN conf.flash_size - conf.flash_boot_size
                                       ELSE 0)
               /\ executeIv_calls' =
                     <<[block |-> iv_blocks_(iv).name,
                        iv    |-> iv - iv_blocks_(iv).iv_base,
                        pc    |-> cpu_pc_]>>
               /\ instruction_cycles_' = 5 - 1]_vars

\* on the large device with ivsel set, vector 20 of TCC1 was dispatched at MED
\* level from PC 0x010203 over a LO handler: a 3-byte frame holds that PC
C7_Witness ==
  /\ cpu_step_did = "ack"
  /\ conf = ConfLarge
  /\ pmic_ctrl_.ivsel
  /\ pmic_status_ = 3
  /\ cpu_pc_ = 40 + 131072
  /\ cpu_sp_ = mem_exsram_start_ - 1 - 3 - 3
  /\ stack_get(sram_data_, cpu_sp_ + 3, 3) = 66051
  /\ executeIv_calls = <<[block |-> "TCC1", iv |-> 0, pc |-> 66051]>>

----------------------------------------------------------------------------
\* Properties of the CPU step

\* the step is a CPU step
CpuStepTaken == \E opcode \in ModelOpcodes : StepCPU(opcode)

\* C8: a CPU step that starts with sreg.I clear or with a CCP window active
\* dispatches no interrupt, whatever is pending: it acknowledges nothing,
\* leaves the queues as they are and calls no executeIv (a step from such a
\* state does so or is no CPU step)
C8_MaskedStepNeverDispatches ==
  [][(Bit(sreg_, 7) = 0 \/ ccp_ioreg_cycles_ > 0 \/ ccp_spm_cycles_ > 0)
       => \/ /\ cpu_step_did' # "ack"
             /\ iv_pending_' = iv_pending_
             /\ executeIv_calls' = <<>>
          \/ ~CpuStepTaken]_vars

\* with NMI vectors pending and nothing in service, a CPU step executed the
\* CLI at the reset vector instead of dispatching, and an I/O protection
\* window is open
C8_Witness ==
  /\ cpu_step_did = "exec"
  /\ cpu_pc_ = 1
  /\ sreg_ = 0
  /\ pmic_status_ = 0
  /\ iv_pending_.nmi = {14, 15}
  /\ ccp_ioreg_cycles_ > 0

\* C9: a CPU step acknowledges an interrupt only if an instruction has been
\* executed since the previous acknowledgement (or there was none)
C9_InstructionBetweenAcks ==
  [][CpuStepAck => steps_since_ack = -1]_vars

\* four steps after the dispatch of a LO vector the debt is paid, sreg.I is
\* set and a HI vector is pending and enabled: only the wait flag holds the
\* next dispatch back
C9_Witness ==
  /\ steps_since_ack = INTERRUPT_CYCLES - 1
  /\ instruction_cycles_ = 0
  /\ interrupt_wait_instruction_
  /\ Bit(sreg_, 7) = 1
  /\ pmic_status_ = 1
  /\ pmic_ctrl_.hilvlen
  /\ iv_pending_.hi # {}

\* C10: a CPU step acknowledges an interrupt only when it starts with zero
\* cycle debt; the four CPU steps after the acknowledging step execute
\* nothing and leave PC at the vector; the fifth executes an instruction
C10_AckTiming ==
  [][/\ CpuStepAck => instruction_cycles_ = 0
     /\ (steps_since_ack \in 0 .. 3 /\ CpuStepTaken) =>
          /\ cpu_step_did' = "pay"
          /\ cpu_pc_' = cpu_pc_
          /\ steps_since_ack' = steps_since_ack + 1
     /\ (steps_since_ack = 4 /\ CpuStepTaken) =>
          /\ cpu_step_did' = "exec"
          /\ steps_since_ack' = -1
     /\ steps_since_ack <= 4]_vars

\* the LO handler of vector 14 has executed its first instruction, a
\* two-cycle RJMP that is still being paid for
C10_Witness ==
  /\ cpu_step_did = "exec"
  /\ steps_since_ack = -1
  /\ pmic_status_ = 1
  /\ cpu_pc_ = 28
  /\ cpu_sp_ = mem_exsram_start_ - 1 - 2
  /\ iv_pending_ = NoPending
  /\ instruction_cycles_ = 1

----------------------------------------------------------------------------
\* RETI

\* a CPU step that executes RETI
RetiExecuted == StepCPU(OP_RETI) /\ cpu_step_did' = "exec" /\ cpu_sp_' # cpu_sp_

\* status without its highest-level bit: NMI (8), then HI (4), MED (2), LO (1)
WithoutHighest(status) ==
  IF Bit(status, 3) = 1 THEN status - 8
  ELSE IF Bit(status, 2) = 1 THEN status - 4
  ELSE IF Bit(status, 1) = 1 THEN status - 2
  ELSE status - 1

\* C11: RETI clears exactly the highest-level bit set in the PMIC status
\* (NMI, then HI, MED, LO) and leaves every other status bit and sreg.I as
\* they were; with no bit set it logs a critical error and the status stays 0
C11_RetiClearsHighest ==
  [][RetiExecuted =>
       /\ sreg_' = sreg_
       /\ pmic_status_ # 0 =>
            /\ pmic_status_' = WithoutHighest(pmic_status_)
            /\ asm_critical' = "none"
       /\ pmic_status_ = 0 =>
            /\ pmic_status_' = 0
            /\ asm_critical' = "RETI but no active interruption"]_vars

\* RETI has run in a handler that interrupted the LO handler, sreg.I set: the
\* higher bit is cleared, LO is still in service, one return frame is left
C11_Witness ==
  /\ cpu_step_did = "exec"
  /\ pmic_status_ = 1
  /\ cpu_sp_ = mem_exsram_start_ - 1 - frameBytes(flash_size_)
  /\ sreg_ = 128
  /\ asm_critical = "none"
  /\ instruction_cycles_ = frameBytes(flash_size_) - 1

----------------------------------------------------------------------------
\* Clock scheduler

\* the transition is a scheduler call of kind op: the log names it, and the
\* log or the queue is new
SchedulerCall(op) ==
  /\ fault = "none"
  /\ sched_log'.op = op
  /\ sched_log' # sched_log \/ clk_sys_queue_' # clk_sys_queue_

\* the live events
Live(q) == {q[i] : i \in 1 .. Len(q)}

\* serial numbers of the live events
Serials(q) == {q[i].serial : i \in 1 .. Len(q)}

\* (tick, priority) of a is not after that of b
NotAfter(a, b) == a.tick < b.tick \/ (a.tick = b.tick /\ a.priority <= b.priority)

\* C12: within one step() the events due at the same SYS tick are called in
\* ascending priority value, and those of equal tick and priority in the order
\* in which they were inserted (stated for events that have not been called
\* before: these were inserted once, by schedule, in the order of their
\* serial numbers)
C12_PriorityThenInsertion ==
  [][SchedulerCall("step") =>
       LET fired == sched_log'.fired
       IN  \A i, j \in 1 .. Len(fired) :
              (i < j /\ fired[i].tick = fired[j].tick) =>
                 /\ fired[i].priority <= fired[j].priority
                 /\ (fired[i].priority = fired[j].priority
                       /\ ~fired[i].called /\ ~fired[j].called)
                      => fired[i].serial < fired[j].serial]_vars

\* C13: at every step boundary the first element of the queue has the
\* minimum (tick, priority) among the live events
C13_FrontIsMinimum ==
  (fault = "none" /\ clk_sys_queue_ # <<>>) =>
     \A i \in 1 .. Len(clk_sys_queue_) : NotAfter(clk_sys_queue_[1], clk_sys_queue_[i])

\* a clock configuration change has moved the CPU event to the tick of a
\* block event created after it: the block event, of lower priority value,
\* is at the front
C13_WitnessRescaled ==
  /\ sched_log.op = "onClockConfigChange"
  /\ fault = "none"
  /\ Len(clk_sys_queue_) = 2
  /\ sched_log.rescaled = {clk_sys_queue_[2].serial}
  /\ clk_sys_queue_[1].cb = "block"
  /\ clk_sys_queue_[2].cb = "cpu"
  /\ clk_sys_queue_[1].tick = clk_sys_queue_[2].tick

\* C14: schedule(domain, cb, ticks, priority) at SYS tick t in a domain of
\* scale s adds exactly one event, of tick (floor(t/s) + ticks) * s and scale
\* s; with ticks >= 1 that tick is after t
C14_ScheduleTick ==
  [][SchedulerCall("schedule") =>
       LET call == sched_log'
           s    == getClockScale(call.clock, clk_prescaler_)
           t    == clk_sys_tick_
       IN  /\ Len(clk_sys_queue_') = Len(clk_sys_queue_) + 1
           /\ \E e \in Live(clk_sys_queue_') :
                 /\ Live(clk_sys_queue_') = Live(clk_sys_queue_) \cup {e}
                 /\ e \notin Live(clk_sys_queue_)
                 /\ e.serial = call.serial
                 /\ e.priority = call.priority
                 /\ e.scale = s
                 /\ e.tick = ((t \div s) + call.ticks) * s
                 /\ e.tick % s = 0
                 /\ call.ticks >= 1 => e.tick > t]_vars

\* schedule(PER, cb, 1, priority) at SYS tick 1 with the PER clock at a scale
\* of 4: the event is due at tick 4
C14_Witness ==
  /\ sched_log.op = "schedule"
  /\ sched_log.clock = "PER"
  /\ sched_log.ticks = 1
  /\ clk_sys_tick_ = 1
  /\ getClockScale("PER", clk_prescaler_) = 4
  /\ \E e \in Live(clk_sys_queue_) : e.serial = sched_log.serial /\ e.tick = 4 /\ e.scale = 4

\* C15: one step() sets clk_sys_tick to the minimum tick over the live events,
\* calls once each event whose tick is that minimum and no other, and leaves
\* every live event with a tick after clk_sys_tick
C15_StepDrainsDue ==
  [][SchedulerCall("step") =>
       LET q     == clk_sys_queue_
           min   == SetMin({q[i].tick : i \in 1 .. Len(q)})
           due   == {e \in Live(q) : e.tick = min}
           fired == sched_log'.fired
       IN  /\ clk_sys_tick_' = min
           /\ {fired[i].serial : i \in 1 .. Len(fired)} = {e.serial : e \in due}
           /\ Len(fired) = Cardinality(due)
           /\ \A e \in Live(clk_sys_queue_') : e.tick > clk_sys_tick_']_vars

\* a step has called two block events due at the same tick, one of which
\* stays; the CPU event, due later, was not called
C15_Witness ==
  /\ sched_log.op = "step"
  /\ Len(sched_log.fired) = 2
  /\ \A i \in 1 .. 2 : sched_log.fired[i].cb = "block"
  /\ Len(clk_sys_queue_) = 2
  /\ \E i \in 1 .. 2 : ~clk_sys_queue_[i].called /\ clk_sys_queue_[i].cb = "cpu"

\* C16: an event whose callback returns 0 leaves the queue and is not called
\* again; one whose callback returns n > 0 stays, n * scale SYS ticks ahead,
\* and with no clock configuration change is called at exactly that tick: no
\* call other than its own changes its tick or scale, and it is called at the
\* SYS tick that equals its tick
C16_ReturnValue ==
  [][(fault = "none" /\ sched_log'.op \in {"step", "schedule", "unschedule"}) =>
       LET fired == IF sched_log'.op = "step" THEN sched_log'.fired ELSE <<>>
           calls == {fired[i] : i \in 1 .. Len(fired)}
       IN  /\ \A f \in calls :
                 /\ f.tick = clk_sys_tick_'
                 /\ f.ret = 0 => f.serial \notin Serials(clk_sys_queue_')
                 /\ f.ret > 0 =>
                      \E e \in Live(clk_sys_queue_') :
                         /\ e.serial = f.serial
                         /\ e.tick = clk_sys_tick_' + f.ret * f.scale
                         /\ e.scale = f.scale
           /\ \A e \in Live(clk_sys_queue_') :
                 \/ e.serial \in {f.serial : f \in calls}
                 \/ e.serial = events_created + 1
                 \/ \E o \in Live(clk_sys_queue_) :
                       o.serial = e.serial /\ o.tick = e.tick /\ o.scale = e.scale]_vars

\* a step at SYS tick 2 called two events of the PER4 clock, at scale 2: the
\* one that returned 2 is due at tick 6, the one that returned 0 is gone
C16_Witness ==
  /\ sched_log.op = "step"
  /\ clk_sys_tick_ = 2
  /\ \E i, j \in 1 .. Len(sched_log.fired) :
        /\ sched_log.fired[i].ret = 2
        /\ sched_log.fired[i].scale = 2
        /\ \E e \in Live(clk_sys_queue_) :
              e.serial = sched_log.fired[i].serial /\ e.tick = 6
        /\ sched_log.fired[j].ret = 0
        /\ sched_log.fired[j].serial \notin Serials(clk_sys_queue_)

\* C17: unschedule(handle) of a live event removes that event and no other,
\* and the others keep tick, priority and scale; unschedule of a handle whose
\* event is not in the queue leaves the queue as it is and logs an error
C17_UnscheduleExact ==
  [][SchedulerCall("unschedule") =>
       LET h == sched_log'.handle
       IN  /\ h.serial \in Serials(clk_sys_queue_) =>
                /\ Serials(clk_sys_queue_') = Serials(clk_sys_queue_) \ {h.serial}
                /\ Len(clk_sys_queue_') = Len(clk_sys_queue_) - 1
                /\ Live(clk_sys_queue_') \subseteq Live(clk_sys_queue_)
                /\ sched_log'.error = "none"
           /\ h.serial \notin Serials(clk_sys_queue_) =>
                /\ clk_sys_queue_' = clk_sys_queue_
                /\ sched_log'.error = "cannot unschedule event: not found"]_vars

\* the transition is a call of Device::onClockConfigChange that returns
ConfigChangeTaken == SchedulerCall("onClockConfigChange") /\ fault' = "none"

\* ceil(a / b) for b > 0
CeilDiv(a, b) == -((-a) \div b)

\* C18: onClockConfigChange keeps the domain ticks an event has left: with
\* d = ceil((tick - clk_sys_tick) / s) under the old scale s, the new tick is
\* clk_sys_tick + d * s' and the new scale s'; an event whose scale does not
\* change keeps its tick
C18_RescaleKeepsDomainTicks ==
  [][ConfigChangeTaken =>
       /\ Len(clk_sys_queue_') = Len(clk_sys_queue_)
       /\ \A e \in Live(clk_sys_queue_) :
             LET s1 == getClockScale(e.clock, clk_prescaler_)
                 d  == CeilDiv(e.tick - clk_sys_tick_, e.scale)
             IN  \E n \in Live(clk_sys_queue_') :
                    /\ n.serial = e.serial
                    /\ n.scale = s1
                    /\ n.tick = IF e.scale = s1 THEN e.tick ELSE clk_sys_tick_ + d * s1
                    /\ n.priority = e.priority]_vars

\* a clock configuration change has moved a PER event with 2 ticks left from
\* scale 1 or 4 to scale 2: it is due 4 SYS ticks ahead
C18_Witness ==
  /\ sched_log.op = "onClockConfigChange"
  /\ fault = "none"
  /\ \E e \in Live(clk_sys_queue_) :
        /\ e.clock = "PER"
        /\ e.serial \in sched_log.rescaled
        /\ e.scale = 2
        /\ e.tick = clk_sys_tick_ + 4

\* C19: in every onClockConfigChange call made at a SYS tick at which the
\* CPU event was called, (tick - clk_sys_tick) mod scale is 0 for every live
\* event whose scale is about to change
C19_AlignedAtCpuTick ==
  [][(SchedulerCall("onClockConfigChange") /\ stepcpu_tick = clk_sys_tick_) =>
       \A e \in Live(clk_sys_queue_) :
          e.scale # getClockScale(e.clock, clk_prescaler_) =>
             (e.tick - clk_sys_tick_) % e.scale = 0]_vars

\* the transition is a call of Device::reset
ResetTaken == sched_log'.op = "reset" /\ events_created' = events_created + 1

----------------------------------------------------------------------------
\* The CPU step event

\* the positions of the queue that hold a stepCPU event
CpuEvents(q) == {i \in 1 .. Len(q) : q[i].cb = "cpu"}

\* C21: in every state reached from reset() by step() calls and by blocks
\* scheduling and unscheduling their own events, the queue holds exactly one
\* stepCPU event: it is never empty and step() never fails on an empty queue
C21_OneCpuEvent ==
  /\ Cardinality(CpuEvents(clk_sys_queue_)) = 1
  /\ clk_sys_queue_ # <<>>
  /\ fault \notin {"assert in step", "front of empty queue"}

\* after steps up to SYS tick 4 in which two block events were called and
\* detached themselves, the stepCPU event is alone in the queue
C21_Witness ==
  /\ sched_log.op = "step"
  /\ clk_sys_tick_ >= 4
  /\ events_created = 3
  /\ Len(clk_sys_queue_) = 1
  /\ clk_sys_queue_[1].cb = "cpu"
  /\ clk_sys_queue_[1].called

----------------------------------------------------------------------------
\* Cycle debt and the BREAK flag

\* a step() call in which the stepCPU event fired
CpuCallbackTaken == SchedulerCall("step") /\ stepcpu_tick' = clk_sys_tick_'

\* C22: a CPU step that starts with cycle debt d > 0 executes no instruction
\* and dispatches nothing, and leaves debt d - 1; a CPU step that starts
\* without debt executes an instruction or dispatches; an executed
\* instruction of n cycles leaves debt n - 1, so the next instruction or
\* dispatch comes n CPU steps later; the debt is never below 0; stepCPU
\* returns 1 and its event is due again one CPU tick later
C22_CycleDebt ==
  [][CpuCallbackTaken =>
       /\ instruction_cycles_' >= 0
       /\ instruction_cycles_ > 0 =>
            /\ cpu_step_did' = "pay"
            /\ instruction_cycles_' = instruction_cycles_ - 1
            /\ executeIv_calls' = <<>>
            /\ UNCHANGED <<cpu_pc_, cpu_sp_, sreg_, pmic_status_, sram_data_, regfile_,
                           iv_pending_>>
       /\ instruction_cycles_ = 0 => cpu_step_did' \in {"exec", "ack"}
       /\ \A opcode \in {OP_BREAK, OP_RJMP_SELF, OP_RETI} :
            (cpu_step_did' = "exec" /\ StepCPU(opcode)) =>
               instruction_cycles_' + 1 =
                 (IF opcode = OP_BREAK THEN 1
                  ELSE IF opcode = OP_RJMP_SELF THEN 2
                  ELSE frameBytes(flash_size_))
       /\ \E i \in 1 .. Len(sched_log'.fired) :
            sched_log'.fired[i].cb = "cpu" /\ sched_log'.fired[i].ret = 1
       /\ \A i \in CpuEvents(clk_sys_queue_') :
            clk_sys_queue_'[i].tick = clk_sys_tick_' + getClockScale("CPU", clk_prescaler_)]_vars

\* on the large device a RETI ran at SYS tick 1 and took 3 cycles: the steps
\* at ticks 2 and 3 only paid, and the debt is now 0
C22_Witness ==
  /\ conf = ConfLarge
  /\ clk_prescaler_ = PrescalerReset
  /\ clk_sys_tick_ = 3
  /\ cpu_step_did = "pay"
  /\ instruction_cycles_ = 0
  /\ steps_since_ack = -1
  /\ pmic_status_ = 0
  /\ cpu_sp_ = mem_exsram_start_ - 1

\* C23: after a CPU step breaked_ is true exactly when that step executed a
\* BREAK instruction; after a step that pays debt, dispatches or executes
\* another instruction it is false, whatever it was before
C23_BreakedIffBreak ==
  [][CpuCallbackTaken =>
       (breaked_' <=> (cpu_step_did' = "exec" /\ StepCPU(OP_BREAK)))]_vars

\* the BREAK at the reset vector was executed, a HI vector was posted, and the
\* next CPU step dispatched it (return PC 1) and cleared the flag
C23_Witness ==
  /\ conf = ConfSmall
  /\ cpu_step_did = "ack"
  /\ ~breaked_
  /\ cpu_pc_ = 28
  /\ pmic_status_ = 4
  /\ stack_get(sram_data_, cpu_sp_ + 2, 2) = 1

----------------------------------------------------------------------------
\* Skip instructions

\* the skip instructions with their skip condition in the current state, io
\* the byte the I/O register reads as
SkipCases(io) ==
  {[opcode |-> OP_SBRC(r, b), skip |-> Bit(regfile_[r], b) = 0] : r \in {0, 31}, b \in {0, 7}}
  \cup {[opcode |-> OP_SBRS(r, b), skip |-> Bit(regfile_[r], b) = 1] : r \in {0, 31}, b \in {0, 7}}
  \cup {[opcode |-> OP_SBIC(a, b), skip |-> Bit(io, b) = 0] : a \in {0, 31}, b \in {0, 7}}
  \cup {[opcode |-> OP_SBIS(a, b), skip |-> Bit(io, b) = 1] : a \in {0, 31}, b \in {0, 7}}
  \cup {[opcode |-> OP_CPSE(d, r), skip |-> regfile_[d] = regfile_[r]] : d \in {0, 31}, r \in {0, 31}}

\* words and cycles of a skip instruction: 1 when the condition does not
\* hold, else 3 over a two-word instruction and 2 over a one-word instruction
SkipLength(skip, opcode2) ==
  IF ~skip THEN 1
  ELSE IF opcode2 \in {OP_JMP, OP_CALL, OP_LDS, OP_STS} THEN 3
  ELSE 2

\* C24: an executed SBRC, SBRS, SBIC, SBIS or CPSE advances PC by 1 word and
\* charges 1 cycle when its condition does not hold, by 3 words and 3 cycles
\* when it holds and the next opcode is JMP, CALL, LDS or STS, and by 2 words
\* and 2 cycles when it holds and the next opcode is a one-word instruction
C24_SkipLength ==
  [][\A io \in SkipBytes, opcode2 \in NextWords :
       \A c \in SkipCases(io) :
          (c.opcode \in SkipOpcodes /\ StepCPUFetch(c.opcode, opcode2, io)
             /\ cpu_step_did' = "exec") =>
            /\ cpu_pc_' = cpu_pc_ + SkipLength(c.skip, opcode2)
            /\ instruction_cycles_' + 1 = SkipLength(c.skip, opcode2)]_vars

----------------------------------------------------------------------------
\* SpecStack: PUSH and POP of r0 and r31 on a device with 3 bytes of SRAM,
\* the registers written between the instructions

\* 3 bytes of internal SRAM: 0x2000 .. 0x2002
ConfStack == [flash_size |-> 131072, flash_boot_size |-> 8192, mem_sram_size |-> 3]

StackBytes == {1, 2}

NextStack ==
  \/ \E r \in {0, 31}, v \in StackBytes : RegfileWrite(r, v)
  \/ \E opcode \in StackOpcodes :
       /\ cpu_pc_ <= MaxPc
       /\ StepCPU(opcode)
       /\ UNCHANGED schedVars

SpecStack == ResetState(ConfStack) /\ [][NextStack]_vars

\* the CPU step executes POP d and a PUSH is waiting for it
PopTaken(d) ==
  /\ push_log # <<>>
  /\ instruction_cycles_ = 0
  /\ StepCPU(OP_POP(d))
  /\ cpu_step_did' = "exec"

\* C30: a POP into r' gives r' the value the register of the latest PUSH not
\* yet popped held at that PUSH, and SP its value before that PUSH, whatever
\* the two registers and wherever SP was in the SRAM; so n pushes and n pops
\* return the values in reverse order. When the POP follows its PUSH
\* directly, the SRAM differs from the SRAM before the PUSH at most in the
\* byte SP pointed to
C30_PushPop ==
  [][\A d \in {0, 31} :
       PopTaken(d) =>
         LET e == push_log[Len(push_log)]
         IN  /\ e.sp >= MEM_SRAM_START /\ e.sp < mem_exsram_start_
             /\ regfile_'[d] = e.v
             /\ cpu_sp_' = e.sp
             /\ e.adjacent =>
                  \A a \in DOMAIN sram_data_ :
                     a # e.sp - MEM_SRAM_START => sram_data_'[a] = e.sram[a]]_vars

\* r0 = 1 and r31 = 2 were pushed in this order from the top of the SRAM and
\* popped into r0, then r31: the registers have changed places and SP is back
C30_Witness ==
  /\ cpu_step_did = "exec"
  /\ cpu_pc_ = 4
  /\ push_log = <<>>
  /\ cpu_sp_ = mem_exsram_start_ - 1
  /\ sram_data_[2] = 1
  /\ sram_data_[1] = 2
  /\ regfile_[0] = 2
  /\ regfile_[31] = 1

----------------------------------------------------------------------------
\* SpecCcp: a program that writes the CCP register, one write at most per
\* executed instruction, while a HI interrupt is pending; every CPU cycle
\* starts with CPU::step()

CcpOpcodes == {OP_RJMP_SELF, OP_RETI, OP_SEI}

InitCcp ==
  \E sreg \in {0, 128} :
     RunningState(ConfSmall, [NoPending EXCEPT !.hi = {14}], 0, CtrlAllOn, 0, sreg)

NextCcp ==
  \/ \E v \in CcpValues :
       /\ cpu_step_did = "exec"
       /\ ccp_log.steps # 0
       /\ CpuSetIoCCP(v)
  \/ \E opcode \in CcpOpcodes : CpuCycle(opcode) /\ UNCHANGED schedVars
  \/ SetIvLvl(14, INTLVL_HI)

SpecCcp == InitCcp /\ [][NextCcp]_vars

\* a CPU cycle is taken
CpuCycleTaken == \E opcode \in CcpOpcodes : CpuCycle(opcode)

\* a HI interrupt is pending and the PMIC lets it through
HiQualifies ==
  /\ iv_pending_.hi # {}
  /\ pmic_ctrl_.hilvlen
  /\ currentIntLvl(pmic_status_) < INTLVL_HI

CcpRead == ccpState

\* the bit of window w in the CCP state s
WindowBit(s, w) == (s \div w) % 2

----------------------------------------------------------------------------
\* SpecConnect: the constructor of a device goes on connecting blocks after
\* CPU, TCC0 and TCC1

\* Device::connectBlock(block), remembered with its outcome
ConnectBlock(block) ==
  LET res == connectBlock(registry_, block)
  IN  /\ registry_' = res.registry
      /\ host_log' = [op |-> "connectBlock", block |-> block, threw |-> res.threw]
      /\ UNCHANGED <<conf, flash_data_, iv_pending_, setIvLvl_log, pmic_ctrl_, cpuVars,
                     ccpVars, regfile_, schedVars>>

\* the blocks connected: in free cells, up to the last cell of each table,
\* across it, and over cells of each other and of TCC0
ConnectBlocks ==
  { TCC0,
    [name |-> "B1", io_addr |-> 2040, io_size |-> 16, iv_base |-> 0, iv_count |-> 0],
    [name |-> "B2", io_addr |-> 0, io_size |-> 4, iv_base |-> 30, iv_count |-> 2],
    [name |-> "B3", io_addr |-> 4, io_size |-> 4, iv_base |-> 31, iv_count |-> 2],
    [name |-> "B4", io_addr |-> 4092, io_size |-> 5, iv_base |-> 40, iv_count |-> 1],
    [name |-> "B5", io_addr |-> 4092, io_size |-> 4, iv_base |-> 126, iv_count |-> 3],
    [name |-> "B6", io_addr |-> 8, io_size |-> 4, iv_base |-> 124, iv_count |-> 4],
    [name |-> "B7", io_addr |-> 2034, io_size |-> 8, iv_base |-> 0, iv_count |-> 0] }

NextConnect == \E block \in ConnectBlocks : ConnectBlock(block)

SpecConnect == ResetState(ConfSmall) /\ [][NextConnect]_vars

\* the blocks of the block list whose I/O range holds address a
IoOwners(a) ==
  {i \in DOMAIN registry_.blocks_ :
     LET b == registry_.blocks_[i] IN b.io_addr <= a /\ a < b.io_addr + b.io_size}

\* the blocks of the block list whose vector range holds vector iv
IvOwners(iv) ==
  {i \in DOMAIN registry_.blocks_ :
     LET b == registry_.blocks_[i]
     IN  b.iv_base # 0 /\ b.iv_base <= iv /\ iv < b.iv_base + b.iv_count}

\* the I/O range of block b leaves the table or holds an owned cell
IoRangeBad(b) ==
  \/ b.io_addr + b.io_size > MEM_IO_SIZE
  \/ \E a \in b.io_addr .. b.io_addr + b.io_size - 1 : a \in DOMAIN registry_.io_blocks_

\* the vector range of block b leaves the table or holds an owned cell
IvRangeBad(b) ==
  /\ b.iv_base # 0
  /\ \/ b.iv_base + b.iv_count > IV_MAX_COUNT
     \/ \E iv \in b.iv_base .. b.iv_base + b.iv_count - 1 : iv \in DOMAIN registry_.iv_blocks_

\* C27: each I/O address and each vector number is in the range of at most
\* one block of the block list, the ranges of these blocks are inside the
\* tables and their cells point to them; a connectBlock of a block whose
\* I/O range or vector range leaves its table or holds a cell that is owned
\* throws and leaves the block list as it was, any other connectBlock appends
\* the block and makes it the owner of its cells
C27_OneOwner ==
  /\ [](/\ \A a \in 0 .. MEM_IO_SIZE - 1 : Cardinality(IoOwners(a)) <= 1
        /\ \A iv \in 0 .. IV_MAX_COUNT - 1 : Cardinality(IvOwners(iv)) <= 1
        /\ \A i \in DOMAIN registry_.blocks_ :
              LET b == registry_.blocks_[i]
              IN  /\ b.io_addr + b.io_size <= MEM_IO_SIZE
                  /\ \A a \in b.io_addr .. b.io_addr + b.io_size - 1 :
                        a \in DOMAIN registry_.io_blocks_ /\ registry_.io_blocks_[a] = b.name
                  /\ b.iv_base # 0 =>
                       /\ b.iv_base + b.iv_count <= IV_MAX_COUNT
                       /\ \A iv \in b.iv_base .. b.iv_base + b.iv_count - 1 :
                             iv \in DOMAIN registry_.iv_blocks_
                             /\ registry_.iv_blocks_[iv] = b.name)
  /\ [][\A block \in ConnectBlocks :
          ConnectBlock(block) =>
            IF IoRangeBad(block) \/ IvRangeBad(block)
              THEN /\ host_log'.threw # "none"
                   /\ registry_'.blocks_ = registry_.blocks_
              ELSE /\ host_log'.threw = "none"
                   /\ registry_'.blocks_ = Append(registry_.blocks_, block)]_vars

\* B2 and B6 are connected, B6 up to the last vector, and the connectBlock of
\* B1, whose range runs into TCC0, has thrown after it took the 8 cells below
\* TCC0: B1 is not in the list
C27_Witness ==
  /\ host_log.op = "connectBlock"
  /\ host_log.block.name = "B1"
  /\ host_log.threw = "I/O memory space overlaps"
  /\ 2047 \in DOMAIN registry_.io_blocks_
  /\ registry_.io_blocks_[2047] = "B1"
  /\ Len(registry_.blocks_) = 5
  /\ \A i \in DOMAIN registry_.blocks_ : registry_.blocks_[i].name # "B1"
  /\ \E i \in DOMAIN registry_.blocks_ : registry_.blocks_[i].name = "B6"

----------------------------------------------------------------------------
\* SpecFlash: loadFlash calls on a new device with 2 flash words

\* flash of 4 bytes, no boot section
ConfFlash == [flash_size |-> 4, flash_boot_size |-> 0, mem_sram_size |-> 16]

FlashBytes == {1, 255}

\* the byte sequences of up to one byte more than the flash holds
FlashImages ==
  UNION {[1 .. n -> FlashBytes] : n \in 0 .. ConfFlash.flash_size + 1}

\* Device::loadFlash(data), remembered with its outcome
LoadFlash(data) ==
  LET res == loadFlash(flash_data_, data, flash_size_ \div 2)
  IN  /\ flash_data_' = res.flash
      /\ host_log' = [op |-> "loadFlash", data |-> data, threw |-> res.threw]
      /\ UNCHANGED <<conf, registry_, iv_pending_, setIvLvl_log, pmic_ctrl_, cpuVars,
                     ccpVars, regfile_, schedVars>>

NextFlash == \E data \in FlashImages : LoadFlash(data)

SpecFlash == NewDeviceState(ConfFlash) /\ [][NextFlash]_vars

\* C29: a loadFlash of more bytes than twice the number of flash words, or
\* of an odd number of bytes, throws and changes no flash word; any other
\* loadFlash throws nothing, makes word i the sum of byte 2i and 256 times
\* byte 2i+1 for each i below half the length, and changes no other word
C29_LoadFlash ==
  [][host_log'.op = "loadFlash" =>
       LET data  == host_log'.data
           n     == Len(data)
           words == flash_size_ \div 2
       IN  IF n > 2 * words \/ n % 2 = 1
             THEN /\ host_log'.threw # "none"
                  /\ flash_data_' = flash_data_
             ELSE /\ host_log'.threw = "none"
                  /\ DOMAIN flash_data_' = 0 .. words - 1
                  /\ \A i \in 0 .. words - 1 :
                        flash_data_'[i] =
                          (IF i < n \div 2 THEN data[2 * i + 1] + 256 * data[2 * i + 2]
                           ELSE flash_data_[i])]_vars

\* an image of one word was loaded over an image of two: word 0 is 0x01FF
\* from the bytes FF 01, word 1 is still the 0xFF01 of the first image
C29_Witness ==
  /\ host_log.op = "loadFlash"
  /\ host_log.data = <<255, 1>>
  /\ host_log.threw = "none"
  /\ flash_data_[0] = 511
  /\ flash_data_[1] = 65281

----------------------------------------------------------------------------
\* Data memory: the calls of the host

\* the addresses of the blocks whose registers are modelled, and the
\* addresses above the I/O space
Modelled(addr) ==
  addr < MEM_IO_SIZE /\ addr \in DOMAIN registry_.io_blocks_ => registry_.io_blocks_[addr] = "CPU"

\* a call of getDataMem(addr), remembered with what it returned
GetDataMem(addr) ==
  /\ Modelled(addr)
  /\ host_log' = [op |-> "getDataMem", addr |-> addr, ret |-> getDataMem(addr).ret,
                  logged |-> getDataMem(addr).logged]
  /\ UNCHANGED <<conf, flash_data_, registry_, iv_pending_, setIvLvl_log, pmic_ctrl_,
                 cpuVars, ccpVars, regfile_, schedVars>>

\* a call of setDataMem(addr, v); the model remembers the SRAM byte written
\* and forgets the PUSHes it has seen when SP or the SRAM is written
SetDataMem(addr, v) ==
  LET st == setDataMem(addr, v)
  IN  /\ Modelled(addr)
      /\ sram_data_' = st.sram
      /\ cpu_sp_' = st.sp
      /\ sreg_' = st.sreg
      /\ ccp_buffer_' = st.ccp_buffer
      /\ cpu_ramp_' = st.ramp
      /\ ccp_log' = IF addr = CPU_BLOCK.io_addr + 4 THEN [v |-> v, steps |-> 0] ELSE ccp_log
      /\ sram_written' =
           IF addr >= MEM_SRAM_START /\ addr < MEM_SRAM_START + mem_sram_size_
             THEN [a \in DOMAIN sram_written \cup {addr} |->
                     IF a = addr THEN v ELSE sram_written[a]]
           ELSE sram_written
      /\ push_log' = IF st.sram = sram_data_ /\ st.sp = cpu_sp_ THEN push_log ELSE <<>>
      /\ frame_log' = IF st.sram = sram_data_ /\ st.sp = cpu_sp_ THEN frame_log ELSE <<>>
      /\ alu_log' = NoAlu
      /\ host_log' = [op |-> "setDataMem", addr |-> addr, v |-> v, logged |-> st.logged]
      /\ UNCHANGED <<conf, flash_data_, registry_, iv_pending_, setIvLvl_log, pmic_ctrl_,
                     pmic_status_, cpu_pc_, instruction_cycles_, interrupt_wait_instruction_,
                     breaked_, executeIv_calls, cpu_step_did, steps_since_ack, asm_critical,
                     ccp_ioreg_cycles_, ccp_spm_cycles_, regfile_, schedVars>>

----------------------------------------------------------------------------
\* SpecMem: the host reads and writes data memory on a device that has run
\* for a while, with and without external SRAM; the program pushes r0 once

\* 2 KiB of EEPROM, 3 bytes of SRAM, no external SRAM
ConfMem ==
  [flash_size |-> 131072, flash_boot_size |-> 8192, mem_sram_size |-> 3,
   mem_eeprom_size |-> 2048, has_exsram |-> FALSE]

\* the same with external SRAM
ConfMemEx == [ConfMem EXCEPT !.has_exsram = TRUE]

\* clk_sys_tick_ 0x01020304
TickBytes == 16909060

\* addresses at both ends of each region and before and after it
MemAddrs ==
  {0, 63, MEM_IO_SIZE - 1,
   MEM_EEPROM_START, MEM_EEPROM_START + 2047, MEM_EEPROM_START + 2048, MEM_SRAM_START - 1,
   MEM_SRAM_START, MEM_SRAM_START + 2, MEM_SRAM_START + 3,
   MEM_EMULATOR_START - 1, MEM_EMULATOR_START, MEM_EMULATOR_START + 1,
   MEM_EMULATOR_START + 2, MEM_EMULATOR_START + 3, MEM_EMULATOR_START + 4,
   MEM_EMULATOR_START + MEM_EMULATOR_SIZE - 1, MEM_EMULATOR_START + MEM_EMULATOR_SIZE,
   MEM_MAX_SIZE - 1, MEM_MAX_SIZE}

MemBytes == {254}

\* the state reset() leaves, at SYS tick t of a run
RunningAt(c, t) ==
  /\ BuiltState(c)
  /\ CpuRegsResetState(c)
  /\ regfile_ = [r \in 0 .. 31 |-> 0]
  /\ clk_sys_tick_ = t
  /\ clk_prescaler_ = PrescalerReset
  /\ clk_ = ClkReset
  /\ clk_sys_queue_ = <<cpuStepEvent(t, PrescalerReset, 1, 1)>>
  /\ fault = "none"
  /\ events_created = 1
  /\ handles = {}
  /\ stepcpu_tick = -1
  /\ sched_log = [op |-> "reset", events |-> 0, regs |-> {}]

InitMem == \E c \in {ConfMem, ConfMemEx} : RunningAt(c, TickBytes)

NextMem ==
  \/ \E addr \in MemAddrs : GetDataMem(addr)
  \/ \E addr \in MemAddrs, v \in MemBytes : SetDataMem(addr, v)
  \/ /\ cpu_pc_ = 0
     /\ StepCPU(OP_PUSH(0))
     /\ UNCHANGED schedVars

SpecMem == InitMem /\ [][NextMem]_vars

\* address a is in no region of the data memory
Unmapped(a) ==
  /\ a >= MEM_IO_SIZE
  /\ ~(a >= MEM_EEPROM_START /\ a < MEM_EEPROM_START + conf.mem_eeprom_size)
  /\ ~(a >= MEM_SRAM_START /\ a < MEM_SRAM_START + conf.mem_sram_size)
  /\ ~(a >= MEM_EMULATOR_START /\ a < MEM_EMULATOR_START + MEM_EMULATOR_SIZE)
  /\ ~(conf.has_exsram /\ a >= MEM_SRAM_START + conf.mem_sram_size /\ a < MEM_MAX_SIZE)

\* address a is an I/O address no block owns
UnownedIo(a) == a < MEM_IO_SIZE /\ a \notin DOMAIN registry_.io_blocks_

\* everything but the model's record of the latest call
UnchangedByCall ==
  UNCHANGED <<conf, flash_data_, registry_, iv_pending_, setIvLvl_log, pmic_ctrl_,
              cpuVars, ccpVars, regfile_, schedVars>>

\* the step is a call of getDataMem
GetDataMemTaken == host_log'.op = "getDataMem" /\ GetDataMem(host_log'.addr)

\* the step is a call of setDataMem
SetDataMemTaken == host_log'.op = "setDataMem" /\ SetDataMem(host_log'.addr, host_log'.v)

\* C28: a byte written to an SRAM address by setDataMem is what getDataMem
\* returns for that address as long as nothing has written the byte again; a
\* read of an address in no region or of an I/O address without a block
\* returns 0 and a write to it changes nothing; reads of 0xFF00 .. 0xFF03
\* return the bytes of clk_sys_tick_, the least significant first, and writes
\* to the emulator window change nothing; no read changes anything
C28_DataMemRouting ==
  /\ [](\A a \in DOMAIN sram_written : getDataMem(a).ret = sram_written[a])
  /\ [][/\ GetDataMemTaken =>
             LET a == host_log'.addr
             IN  /\ UnchangedByCall
                 /\ a \in DOMAIN sram_written => host_log'.ret = sram_written[a]
                 /\ (Unmapped(a) \/ UnownedIo(a)) => host_log'.ret = 0
                 /\ \A k \in 0 .. 3 :
                       a = MEM_EMULATOR_START + k =>
                         host_log'.ret = (clk_sys_tick_ \div (256 ^ k)) % 256
        /\ SetDataMemTaken =>
             LET a == host_log'.addr
                 v == host_log'.v
             IN  /\ (\/ Unmapped(a)
                     \/ UnownedIo(a)
                     \/ (a >= MEM_EMULATOR_START /\ a < MEM_EMULATOR_START + MEM_EMULATOR_SIZE))
                      => UnchangedByCall
                 /\ (a >= MEM_SRAM_START /\ a < MEM_SRAM_START + conf.mem_sram_size) =>
                      /\ a \in DOMAIN sram_written'
                      /\ sram_written'[a] = v
                      /\ \A b \in DOMAIN sram_written \ {a} :
                            b \in DOMAIN sram_written' /\ sram_written'[b] = sram_written[b]]_vars

\* the byte 0xFE written to the first SRAM address is still there after a
\* write to the emulator window and to an address in no region, and the read
\* of 0xFF01 has returned the second byte of the tick
C28_Witness ==
  /\ MEM_SRAM_START \in DOMAIN sram_written
  /\ sram_written[MEM_SRAM_START] = 254
  /\ sram_data_[0] = 254
  /\ host_log.op = "getDataMem"
  /\ host_log.addr = MEM_EMULATOR_START + 1
  /\ host_log.ret = 3
  /\ clk_sys_tick_ = TickBytes

----------------------------------------------------------------------------
\* SpecCall: programs that call, push, pop and return, on a device with a
\* 2-byte and on one with a 3-byte return frame; Z and EIND are set by the
\* host before the program starts

\* 7 bytes of internal SRAM; 0x20200 bytes of flash give eind_mask_ bit 0
ConfCall == [flash_size |-> 131072, flash_boot_size |-> 8192, mem_sram_size |-> 7]

ConfCallLarge == [flash_size |-> 131584, flash_boot_size |-> 8192, mem_sram_size |-> 7]

\* the low 16 bits of the targets: the flash word that follows a CALL, and Z
CallTarget == 128

\* a call stands in the first word of the program or of a called routine, a
\* PUSH or POP in the words that follow one
CallSites == {0, CallTarget, 65536 + CallTarget}

MaxStackPc == 2

\* the address of EIND in data memory
EIND_ADDR == CPU_BLOCK.io_addr + 12

InitCall == \E c \in {ConfCall, ConfCallLarge} : ResetState(c)

\* the byte the program pushes
PushByte == 85

NextCall ==
  \/ /\ regfile_[0] = 0
     /\ RegfileWrite(0, PushByte)
  \/ /\ regfile_[0] = PushByte
     /\ regfile_[30] = 0
     /\ RegfileWrite(30, CallTarget)
  \/ /\ regfile_[30] = CallTarget
     /\ host_log.op = "none"
     /\ SetDataMem(EIND_ADDR, 1)
  \/ \E opcode \in CallOpcodes \cup {OP_PUSH(0), OP_POP(0)} :
       /\ host_log.op = "setDataMem"
       /\ opcode \in CallOpcodes \ {OP_RET} =>
            (cpu_pc_ \in CallSites /\ Len(frame_log) < MaxNesting)
       /\ opcode \in StackOpcodes => cpu_pc_ % CallTarget <= MaxStackPc
       /\ opcode = OP_RCALL(4094) => cpu_pc_ >= 1
       /\ opcode = OP_RET => frame_log # <<>>
       /\ StepCPUFetch(opcode, CallTarget, 0)
       /\ UNCHANGED schedVars

SpecCall == InitCall /\ [][NextCall]_vars

\* the CPU step executes opcode
Executes(opcode) ==
  /\ instruction_cycles_ = 0
  /\ StepCPUFetch(opcode, CallTarget, 0)
  /\ cpu_step_did' = "exec"

\* words of a call instruction: 2 for CALL, 1 for RCALL, ICALL and EICALL
callWords(opcode) == IF opcode \in {OP_CALL, OP_CALL_HI} THEN 2 ELSE 1

\* bytes of a return frame as the claim gives them
C31_FrameBytes == IF flash_size_ <= 131072 THEN 2 ELSE 3

\* C31: CALL, RCALL, ICALL and (where flash_size > 0x20000) EICALL move SP down
\* by the frame size, 2 bytes when flash_size <= 0x20000 and 3 otherwise; a
\* RET executed with SP where the latest call not yet returned from left it,
\* the stack never having risen above that frame nor the frame been written,
\* sets PC to the word after that call instruction (two words after a CALL)
\* and SP to its value before the call
C31_CallReturns ==
  [][/\ \A opcode \in CallOpcodes :
          (pushesFrame(opcode) /\ Executes(opcode)) =>
             cpu_sp_' = cpu_sp_ - C31_FrameBytes
     /\ (/\ frame_log # <<>>
         /\ frame_log[Len(frame_log)].kind = "call"
         /\ cpu_sp_ = frame_log[Len(frame_log)].sp - C31_FrameBytes
         /\ Executes(OP_RET)) =>
           LET e == frame_log[Len(frame_log)]
           IN  /\ cpu_pc_' = e.pc + callWords(e.op)
               /\ cpu_sp_' = e.sp]_vars

\* on the device with 3-byte frames: a CALL at word 0, a call at the first
\* word of the called routine, and both have returned, the second RET to
\* word 2 with SP back at the top of the SRAM
C31_Witness ==
  /\ conf = ConfCallLarge
  /\ cpu_step_did = "exec"
  /\ frame_log = <<>>
  /\ cpu_pc_ = 2
  /\ cpu_sp_ = mem_exsram_start_ - 1
  /\ sram_data_[6] = 2
  /\ sram_data_[3] = 129
  /\ sram_data_[1] = 0

----------------------------------------------------------------------------
\* SpecAlu: programs of BSET, BCLR, COM and ADD instructions on registers
\* and a SREG the host has set

\* the values of the operands: both ends, both sides of each carry
AluBytes == {1, 15, 127, 128, 255}

\* the values of SREG: no flag, each flag alone, all flags
SregBytes == {0, 255} \cup {Shl1(s) : s \in 0 .. 7}

\* the address of SREG in data memory
SREG_ADDR == CPU_BLOCK.io_addr + 15

NextAlu ==
  \/ \E r \in {16, 17}, v \in AluBytes :
       /\ cpu_step_did = "none"
       /\ regfile_[r] = 0
       /\ RegfileWrite(r, v)
  \/ \E v \in SregBytes :
       /\ cpu_step_did = "none"
       /\ host_log.op = "none"
       /\ SetDataMem(SREG_ADDR, v)
  \/ \E opcode \in AluOpcodes :
       /\ cpu_pc_ < MaxAluPc
       /\ cpu_pc_ # 0 =>
            \/ alu_log.op = OP_BSET((opcode \div 16) % 8) /\ opcode = OP_BCLR((opcode \div 16) % 8)
            \/ alu_log.op = opcode /\ BitAnd(opcode, 65039) = 37888
       /\ StepCPU(opcode)
       /\ UNCHANGED schedVars

SpecAlu == ResetState(ConfSmall) /\ [][NextAlu]_vars

\* the CPU step executes opcode, which reads neither the next flash word nor
\* an I/O register
ExecutesAlone(opcode) ==
  /\ instruction_cycles_ = 0
  /\ StepCPU(opcode)
  /\ cpu_step_did' = "exec"

\* C32 as stated: BCLR s executed after BSET s leaves SREG as it was before
\* the BSET; a second COM d leaves register d as it was before the first, and
\* C set
C32_BsetBclrIdentity ==
  [][/\ \A s \in 0 .. 7 :
          (alu_log.op = OP_BSET(s) /\ ExecutesAlone(OP_BCLR(s))) => sreg_' = alu_log.sreg
     /\ \A d \in {16, 17} :
          (alu_log.op = OP_COM(d) /\ ExecutesAlone(OP_COM(d))) =>
             (regfile_'[d] = alu_log.rd /\ Bit(sreg_', 0) = 1)]_vars

\* C32, amended: BCLR s executed after BSET s leaves SREG as it was before
\* the BSET with flag s clear, whatever SREG was; a second COM d leaves
\* register d as it was before the first, and C set
C32_BsetBclrClears ==
  [][/\ \A s \in 0 .. 7 :
          (alu_log.op = OP_BSET(s) /\ ExecutesAlone(OP_BCLR(s))) =>
             sreg_' = alu_log.sreg - Shl1(s) * Bit(alu_log.sreg, s)
     /\ \A d \in {16, 17} :
          (alu_log.op = OP_COM(d) /\ ExecutesAlone(OP_COM(d))) =>
             (regfile_'[d] = alu_log.rd /\ Bit(sreg_', 0) = 1)]_vars

\* BSET 1 and BCLR 1 have run on a SREG that had only Z set: SREG is 0
C32_Witness ==
  /\ host_log.op = "setDataMem"
  /\ host_log.v = 2
  /\ alu_log.op = OP_BCLR(1)
  /\ cpu_pc_ = 2
  /\ sreg_ = 0

\* a byte as a signed 8-bit value
s8(v) == IF v >= 128 THEN v - 256 ELSE v

\* C35: ADD Rd,Rr stores (Rd + Rr) mod 256 in Rd, sets C to the carry out of
\* bit 7, H to the carry out of bit 3, Z exactly when the result is 0, N to
\* bit 7 of the result, V to the signed overflow and S to N xor V, advances PC
\* by 1 and takes 1 cycle
C35_Add ==
  [][\A d \in {16, 17} :
       ExecutesAlone(OP_ADD(d, 17)) =>
         LET Rd == regfile_[d]
             Rr == regfile_[17]
             R  == (Rd + Rr) % 256
             N  == IF R >= 128 THEN 1 ELSE 0
             V  == IF s8(Rd) + s8(Rr) > 127 \/ s8(Rd) + s8(Rr) < -128 THEN 1 ELSE 0
         IN  /\ regfile_'[d] = R
             /\ Bit(sreg_', 0) = (IF Rd + Rr >= 256 THEN 1 ELSE 0)
             /\ Bit(sreg_', 5) = (IF (Rd % 16) + (Rr % 16) >= 16 THEN 1 ELSE 0)
             /\ Bit(sreg_', 1) = (IF R = 0 THEN 1 ELSE 0)
             /\ Bit(sreg_', 2) = N
             /\ Bit(sreg_', 3) = V
             /\ Bit(sreg_', 4) = (N + V) % 2
             /\ cpu_pc_' = cpu_pc_ + 1
             /\ instruction_cycles_' = 0]_vars

\* ADD r16,r17 has run on r16 = 0xFF and r17 = 0x01 with SREG 0: r16 is 0x00,
\* C, Z and H are set, N, V and S clear
C35_Witness ==
  /\ alu_log = [op |-> OP_ADD(16, 17), sreg |-> 0, rd |-> 255]
  /\ regfile_[17] = 1
  /\ regfile_[16] = 0
  /\ sreg_ = 35
  /\ cpu_pc_ = 1
  /\ instruction_cycles_ = 0

----------------------------------------------------------------------------
\* SpecPtr: one LD or ST with post-increment or pre-decrement through X, Y
\* or Z, after the host has set r0, the pointer and a RAMP register

\* 256 bytes of SRAM and no external SRAM: ramp_mask_ is 0x21
ConfPtr ==
  [flash_size |-> 131072, flash_boot_size |-> 8192, mem_sram_size |-> 256,
   mem_eeprom_size |-> 2048, has_exsram |-> FALSE]

\* low and high bytes written to the pointer: with the reset 0 the pointers
\* 0x0000, 0x0001, 0x00FF, 0x2000, 0x2001, 0x20FF, 0xFF00, 0xFF01, 0xFFFF
PtrLow == {1, 255}

PtrHigh == {32, 255}

\* values written to RAMPX, RAMPY, RAMPZ
RampBytes == {1, 32, 33}

\* the addresses of RAMPX, RAMPY, RAMPZ in data memory
RampAddrs == {CPU_BLOCK.io_addr + 9, CPU_BLOCK.io_addr + 10, CPU_BLOCK.io_addr + 11}

\* no register of a pointer pair is written yet
PointersZero == \A r \in 26 .. 31 : regfile_[r] = 0

NextPtr ==
  \/ /\ regfile_[0] = 0
     /\ RegfileWrite(0, PushByte)
  \/ \E base \in {26, 28, 30}, v \in PtrLow :
       /\ regfile_[0] = PushByte
       /\ cpu_step_did = "none"
       /\ host_log.op = "none"
       /\ PointersZero
       /\ RegfileWrite(base, v)
  \/ \E base \in {26, 28, 30}, v \in PtrHigh :
       /\ regfile_[0] = PushByte
       /\ cpu_step_did = "none"
       /\ host_log.op = "none"
       /\ \A r \in (26 .. 31) \ {base, base + 1} : regfile_[r] = 0
       /\ regfile_[base + 1] = 0
       /\ RegfileWrite(base + 1, v)
  \/ \E addr \in RampAddrs, v \in RampBytes :
       /\ regfile_[0] = PushByte
       /\ cpu_step_did = "none"
       /\ host_log.op = "none"
       /\ SetDataMem(addr, v)
  \/ \E opcode \in PtrOpcodes :
       /\ regfile_[0] = PushByte
       /\ cpu_pc_ = 0
       /\ StepCPU(opcode)
       /\ UNCHANGED schedVars

SpecPtr == ResetState(ConfPtr) /\ [][NextPtr]_vars

\* the 16-bit pointer and the RAMP register an LD or ST of addressing mode
\* `mode` must leave, from the pointer P and the RAMP register R before it
C34_Pointer(mode, P, R) ==
  IF mode \in {13, 9, 1}
    THEN IF P = 65535 THEN [ptr |-> 0, ramp |-> BitAnd(R + 1, ramp_mask_)]
         ELSE [ptr |-> P + 1, ramp |-> R]
    ELSE IF P = 0 THEN [ptr |-> 65535, ramp |-> BitAnd(R - 1, ramp_mask_)]
         ELSE [ptr |-> P - 1, ramp |-> R]

----------------------------------------------------------------------------
\* SpecNest: interrupts nesting on both device sizes: vectors posted while
\* the program and the handlers run, as long as the stack below SP is as reset
\* left it; handlers that push and pop a register and return with RETI when
\* SP is where the dispatch left it

NestIVs == {14, 15}

\* the levels at which a block posts vector iv
NestLvls(iv) == IF iv = 14 THEN {INTLVL_LO, INTLVL_MED} ELSE {INTLVL_HI, INTLVL_NMI}

\* the program counters of the interrupted program
NestPCs(cf) == IF cf.flash_size <= FLASH_16BIT_PC_MAX THEN {291} ELSE {66051}

\* the word addresses of the first and second instruction of the handler
\* that pushes and pops
HandlerEntry == {2 * 14}

HandlerSecond == {2 * 14 + 1}

InitNest ==
  \E cf \in ModelConfs : \E pc \in NestPCs(cf) :
     RunningState(cf, NoPending, 0, CtrlAllOn, pc, 128)

NextNest ==
  \/ \E iv \in NestIVs : \E lvl \in NestLvls(iv) :
       /\ regfile_[0] = PushByte
       /\ \A a \in DOMAIN sram_data_ : a <= stack(cpu_sp_) => sram_data_[a] = 0
       /\ SetIvLvl(iv, lvl)
  \/ /\ regfile_[0] = 0
     /\ RegfileWrite(0, PushByte)
  \/ \E opcode \in {OP_RJMP_SELF, OP_RETI, OP_PUSH(0), OP_POP(0)} :
       /\ regfile_[0] = PushByte
       /\ opcode = OP_PUSH(0) => cpu_pc_ \in HandlerEntry
       /\ opcode = OP_POP(0) => cpu_pc_ \in HandlerSecond
       /\ opcode = OP_RETI =>
            /\ frame_log # <<>>
            /\ cpu_sp_ = frame_log[Len(frame_log)].sp - frameBytes(flash_size_)
       /\ cpu_sp_ - frameBytes(flash_size_) >= MEM_SRAM_START
       /\ StepCPU(opcode)
       /\ UNCHANGED schedVars

SpecNest == InitNest /\ [][NextNest]_vars

\* C36: a RETI executed with the stack pointer where the dispatch left it and
\* the return frame as the dispatch wrote it (every handler nested in between
\* has returned the same way) restores the PC, the SP and the PMIC status to
\* their values before the dispatch; neither a dispatch nor a RETI changes
\* SREG or the register file
C36_DispatchRetiRoundTrip ==
  [][/\ \A e \in {frame_log[i] : i \in {Len(frame_log)} \ {0}} :
          (/\ ExecutesAlone(OP_RETI)
           /\ e.kind = "iv"
           /\ cpu_sp_ = e.sp - frameBytes(flash_size_)) =>
            /\ cpu_pc_' = e.pc
            /\ cpu_sp_' = e.sp
            /\ pmic_status_' = e.status
     /\ (ExecutesAlone(OP_RETI) \/ cpu_step_did' = "ack") =>
          (sreg_' = sreg_ /\ regfile_' = regfile_)]_vars

\* on the large device a low-level handler, interrupted by a high-level one
\* that has returned, has itself returned after a push and a pop: PC, SP and
\* status are those of the interrupted program
C36_Witness ==
  /\ conf = ConfLarge
  /\ cpu_step_did = "exec"
  /\ cpu_pc_ = 66051
  /\ cpu_sp_ = mem_exsram_start_ - 1
  /\ pmic_status_ = 0
  /\ frame_log = <<>>
  /\ sram_data_[mem_sram_size_ - 4] = PushByte
  /\ sram_data_[mem_sram_size_ - 5] = 29
  /\ iv_pending_ = NoPending

----------------------------------------------------------------------------
\* SpecClk: writes to the CLK registers, CCP writes, CPU::step calls and
\* resets in any order

\* the CLK register addresses written: CTRL, PSCTRL, LOCK, RTCCTRL and a
\* reserved one
ClkAddrs == 0 .. 4

\* the bytes written: 0, 1, a PSCTRL with both fields set (PSADIV 3, PSBCDIV
\* 3), an invalid SCLKSEL (5), an invalid PSADIV (10)
ClkBytes == {0, 1, 15, 5, 40}

NextClk ==
  \/ \E addr \in ClkAddrs, v \in ClkBytes : ClkSetIo(addr, v)
  \/ \E v \in {157, 216} : CpuSetIoCCP(v)
  \/ CpuStep
  \/ Reset

SpecClk == ResetState(ConfSmall) /\ [][NextClk]_vars

\* C38: once LOCK is set it stays set until a reset, and while it is set
\* nothing but a reset changes the system clock selection, the PSCTRL value or
\* the prescaler divisors; LOCK goes from clear to set only in a write of a
\* non-zero byte to LOCK made while the CCP I/O-register window is open
C38_ClkLock ==
  [][/\ (clk_.locked /\ sched_log'.op # "reset") =>
          /\ clk_'.locked
          /\ clk_'.sclk = clk_.sclk
          /\ clk_'.psctrl = clk_.psctrl
          /\ clk_prescaler_' = clk_prescaler_
     /\ (~clk_.locked /\ clk_'.locked) =>
          /\ sched_log'.op = "clkSetIo"
          /\ sched_log'.addr = 2
          /\ sched_log'.v # 0
          /\ ccp_ioreg_cycles_ > 0]_vars

\* the clock was set up (SCLKSEL 1, PSADIV 3, PSBCDIV 3: divisors 8, 2, 2),
\* locked, and a write of 0 to PSCTRL has been refused
C38_Witness ==
  /\ clk_.locked
  /\ clk_.sclk = 1
  /\ clk_.psctrl = [psadiv |-> 3, psbcdiv |-> 3]
  /\ clk_prescaler_ = [a |-> 8, b |-> 2, c |-> 2]
  /\ sched_log = [op |-> "clkSetIo", addr |-> 1, v |-> 0, logged |-> "error"]

----------------------------------------------------------------------------
\* SpecTime: the scheduler from reset, the prescalers dividing by 1: blocks
\* scheduling events on every clock with ticks 0, 1 or 2 and unscheduling them
\* between steps, callbacks returning 0, 1 or 2; the priority of an event
\* tells whether it was scheduled with ticks = 0

TimeClocks == {"SYS", "PER", "PER2", "PER4"}

\* the priority the blocks give an event they schedule with `ticks`
TimePriority(ticks) == IF ticks = 0 THEN 10 ELSE 20

NextTime ==
  \/ \E clock \in TimeClocks, ticks \in 0 .. 2 : Schedule(clock, ticks, TimePriority(ticks))
  \/ \E h \in handles : Unschedule(h)
  \/ \E rets \in [BlockDueSerials(clk_sys_queue_) -> 0 .. 2] : Step(rets, OP_RJMP_SELF)

SpecTime == ResetState(ConfSmall) /\ [][NextTime]_vars

\* every live event was scheduled with ticks >= 1: the stepCPU event by
\* reset(), the others by the blocks
ScheduledAhead ==
  \A i \in 1 .. Len(clk_sys_queue_) :
     \/ clk_sys_queue_[i].cb = "cpu"
     \/ clk_sys_queue_[i].priority = TimePriority(1)

----------------------------------------------------------------------------
\* SpecDrain: the scheduler after h = schedule(...); reset(): the handle h
\* outlives the reset that freed its event, and operator new gave the stepCPU
\* event of the reset either that address or a new one; then blocks schedule
\* and unschedule events between steps

\* the handle kept from before the reset: address 0, an event of no serial
StaleHandle == [addr |-> 0, serial |-> 0]

InitDrain ==
  /\ CpuResetState(ConfSmall)
  /\ regfile_ = [r \in 0 .. 31 |-> 0]
  /\ clk_sys_tick_ = 0
  /\ clk_prescaler_ = PrescalerReset
  /\ clk_ = ClkReset
  /\ \E addr \in {StaleHandle.addr, 1} :
        clk_sys_queue_ = <<cpuStepEvent(0, PrescalerReset, addr, 1)>>
  /\ fault = "none"
  /\ events_created = 1
  /\ handles = {StaleHandle}
  /\ stepcpu_tick = -1
  /\ sched_log = [op |-> "reset", events |-> 0, regs |-> {}]

NextDrain ==
  \/ \E clock \in {"SYS", "PER"}, ticks \in 1 .. 2 : Schedule(clock, ticks, 10)
  \/ \E h \in handles : Unschedule(h)
  \/ \E rets \in [BlockDueSerials(clk_sys_queue_) -> 0 .. 1] : Step(rets, OP_RJMP_SELF)
  \/ StepEmpty

SpecDrain == InitDrain /\ [][NextDrain]_vars

\* C40: in a step() entered with a non-empty queue, the queue is non-empty
\* every time the loop reads its first element, also after a callback that
\* returned 0 had its event, the last of the queue, removed; the loop calls
\* each event at most once per SYS tick it lies behind
C40_FrontOfNonEmptyQueue ==
  [][(sched_log'.op = "step" /\ clk_sys_queue_ # <<>>) =>
       /\ fault' # "front of empty queue"
       /\ Len(sched_log'.fired) <= Len(clk_sys_queue_) * (MaxTick + 1)]_vars

----------------------------------------------------------------------------
\* Properties of the stack pointer

\* C33: after any sequence of stack instructions and interrupt entries the
\* stack pointer designates a byte of the internal SRAM, in
\* [MEM_SRAM_START, MEM_SRAM_START + mem_sram_size), or the emulator has
\* reported the violation
C33_StackPointerInSram ==
  \/ cpu_sp_ >= MEM_SRAM_START /\ cpu_sp_ < MEM_SRAM_START + mem_sram_size_
  \/ asm_critical # "none"

----------------------------------------------------------------------------
\* SpecLive: a program running with SREG.I set and no CCP window, started with
\* any vectors pending, any PMIC enable bits and any levels in service; the
\* program loops, the handlers loop and return with RETI; nothing is posted
\* or cleared meanwhile

LiveIVs == {14, 15}

\* the PMIC status bytes at the start: nothing, one level or two levels in service
LiveStatus == {0, 1, 4, 8, 6}

LiveCtrl == {c \in CtrlValues : ~c.ivsel}

InitLive ==
  \E p \in PendingStates(LiveIVs) : \E s \in LiveStatus : \E c \in LiveCtrl :
     \E pc \in NestPCs(ConfSmall) : RunningState(ConfSmall, p, s, c, pc, 128)

\* one CPU step of the running device; RETI is met in handlers only
LiveStep(opcode) ==
  /\ opcode = OP_RETI => pmic_status_ # 0
  /\ StepCPU(opcode)
  /\ UNCHANGED schedVars

NextLive == \E opcode \in {OP_RJMP_SELF, OP_RETI} : LiveStep(opcode)

\* a handler executes its RETI
HandlerReturns ==
  /\ LiveStep(OP_RETI)
  /\ cpu_step_did' = "exec"

\* the stepCPU event re-arms itself at every tick (it returns 1) and the host
\* keeps calling step(): CPU steps keep happening; every handler eventually
\* executes RETI
SpecLive ==
  /\ InitLive
  /\ [][NextLive]_vars
  /\ WF_vars(NextLive)
  /\ SF_vars(HandlerReturns)

\* vector iv is pending at level lvl and the level's enable bit is set (NMI has none)
PendingEnabled(iv, lvl) ==
  /\ iv \in iv_pending_[QueueOf(lvl)]
  /\ LevelEnabled(lvl)

\* the last CPU step dispatched vector iv: executeIv was called for it
Served(iv) ==
  /\ cpu_step_did = "ack"
  /\ Len(executeIv_calls) = 1
  /\ executeIv_calls[1].block = iv_blocks_(iv).name
  /\ executeIv_calls[1].iv = iv - iv_blocks_(iv).iv_base

\* a vector goes before iv pending at lvl: one of a higher enabled level, or a
\* lower-numbered one of the same level
GoesBefore(iv, lvl) ==
  \/ \E l2 \in INTLVL_LO .. INTLVL_NMI :
        l2 > lvl /\ iv_pending_[QueueOf(l2)] # {} /\ LevelEnabled(l2)
  \/ \E iv2 \in iv_pending_[QueueOf(lvl)] : iv2 < iv

\* C37: with SREG.I set and no CCP window, a vector pending at an enabled
\* level (or at NMI) is dispatched by the CPU step that starts with zero cycle
\* debt, after one retired instruction, with the serviced level below the
\* vector's, unless a vector of a higher level or a lower-numbered vector of
\* the same level goes before it; it is dispatched by no other step; if every
\* handler eventually executes RETI, it is eventually dispatched
C37_PendingServed ==
  /\ [][\A iv \in LiveIVs : \A lvl \in INTLVL_LO .. INTLVL_NMI :
          (NextLive /\ PendingEnabled(iv, lvl)) =>
             /\ (dispatchGuard /\ pmic_status_ < Shl1(lvl - 1) /\ ~GoesBefore(iv, lvl))
                  => Served(iv)'
             /\ Served(iv)' =>
                  /\ dispatchGuard
                  /\ pmic_status_ < Shl1(lvl - 1)
                  /\ ~GoesBefore(iv, lvl)
                  /\ pmic_status_' = BitOr(pmic_status_, Shl1(lvl - 1))
                  /\ iv \notin iv_pending_'[QueueOf(lvl)]]_vars
  /\ \A iv \in LiveIVs :
        (\E lvl \in INTLVL_LO .. INTLVL_NMI : PendingEnabled(iv, lvl)) ~> Served(iv)

\* vector 15, pending at LO level since the start with only LO enabled, was
\* dispatched from PC 0, where the handler in service at the start returned to
C37_Witness ==
  /\ Served(15)
  /\ executeIv_calls[1].pc = 0
  /\ pmic_status_ = Shl1(INTLVL_LO - 1)
  /\ pmic_ctrl_ = [lolvlen |-> TRUE, medlvlen |-> FALSE, hilvlen |-> FALSE, ivsel |-> FALSE]
  /\ iv_pending_ = [lo |-> {}, med |-> {14}, hi |-> {}, nmi |-> {}]
  /\ cpu_sp_ = MEM_SRAM_START + mem_sram_size_ - 1 - frameBytes(flash_size_)

====
